---------------------------- MODULE Spec2Model ----------------------------
(***************************************************************************)
(* Facet filter engine and sidebar session of the IB NGP Harm Reduction    *)
(* Insights page (src/IB_NGP_Harm_Reduction_Insights.py).                  *)
(*                                                                         *)
(* Strings.  A Python string is modelled by the list that                  *)
(* s.split(" {") returns: the sequence of its pieces between occurrences   *)
(* of the separator " {".  <<"RCT">> is "RCT", <<"RCT", "2}">> is          *)
(* "RCT {2}".  A piece never contains the separator, so two strings are    *)
(* equal exactly when their piece sequences are equal.                     *)
(*                                                                         *)
(* Cells.  A cell of the table read by pandas.read_excel is NaN (empty     *)
(* cell), a Python int (numeric cell) or a non-empty text.  read_excel     *)
(* turns an empty text into NaN, so the empty text is not a cell value.    *)
(***************************************************************************)
EXTENDS Integers, Sequences, FiniteSets, TLC

VARIABLES
    df,                    \* the table returned by load_data()
    year_range,            \* st.session_state.year_range
    publication_type,      \* st.session_state.publication_type
    funding_source,        \* st.session_state.funding_source
    study_design,          \* st.session_state.study_design
    enable_sample_size,    \* st.session_state.enable_sample_size
    sample_size_filter,    \* st.session_state.sample_size_filter
    sample_size_slider,    \* st.session_state.sample_size_slider (widget)
    publication_types,     \* option list rendered by the last rerun
    funding_sources,       \* option list rendered by the last rerun
    study_designs,         \* option list rendered by the last rerun
    initial_docs,          \* documents after the year facet (last rerun)
    docs_after_pub_type,   \* ... after year + publication type
    docs_after_funding,    \* ... after year + publication type + funding
    matching_docs,         \* result of the final count_matching_documents
    submitted,             \* what the last event handed to its handler
    categories_to_extract, \* schema handed to extract_research_insights_from_docs
    insights,              \* what extract_research_insights_from_docs returned
    rag_system,            \* the RAGSystem object
    search_call,           \* arguments and outcomes of the calls a search makes
    search_results,        \* what search_documents_faiss returned
    formatted_results,     \* what get_relevant_documents returned
    session_state,         \* st.session_state: the keys not listed above
    tasks,                 \* the bulk job: its position and its coroutines
    calls,                 \* how often the page called its collaborators
    pc                     \* position of the script / last handler run

vars == <<df, year_range, publication_type, funding_source, study_design,
          enable_sample_size, sample_size_filter, sample_size_slider,
          publication_types, funding_sources, study_designs,
          initial_docs, docs_after_pub_type, docs_after_funding,
          matching_docs, submitted, categories_to_extract, insights,
          rag_system, search_call, search_results, formatted_results,
          session_state, tasks, calls, pc>>

extraction == <<categories_to_extract, insights>>

retrieval == <<rag_system, search_call, search_results, formatted_results>>

page == <<session_state, tasks, calls>>

-----------------------------------------------------------------------------
(* Bounds of the model *)

\* number of document columns of the table
NumDocs == 3

\* largest number of options a drawn categorical selection holds
MaxSelected == 2

-----------------------------------------------------------------------------
(* Python values *)

NaN == [k |-> "nan", n |-> 0, s |-> <<>>]
Num(n) == [k |-> "num", n |-> n, s |-> <<>>]
Text(s) == [k |-> "str", n |-> 0, s |-> s]

\* the value None (no filter, no stored value)
None == <<>>

\* None where a row name is expected ("if subcategory_name:" is false)
NoName == ""

\* the sentinel option
All == <<"All">>

\* the outcome of a call that ended with an uncaught exception, where a
\* list of document columns is expected (no column has this name)
Raised == <<"Raised">>

\* bool(value) as used by "if year_value:" and its siblings: NaN is a
\* non-zero float and so true, the int 0 is false, a non-empty text is true
Truthy(c) ==
    CASE c.k = "nan" -> TRUE
      [] c.k = "num" -> c.n # 0
      [] OTHER       -> c.s # <<"">>

\* str(value)
PyStr(c) ==
    CASE c.k = "nan" -> <<"nan">>
      [] c.k = "num" -> <<ToString(c.n)>>
      [] OTHER       -> c.s

\* the integers whose decimal numerals the model's texts may spell
Numerals == {0, 50, 120, 2019, 2021, 2023, 12000}

\* int(float(value)): the number, or the exception the conversion raises.
\* float() of a text is its number when the text is a numeral, infinity
\* for "inf" (int() of it raises OverflowError) and ValueError otherwise;
\* int() of NaN raises ValueError.
IntFloat(c) ==
    CASE c.k = "nan" -> [ok |-> FALSE, n |-> 0, exc |-> "ValueError"]
      [] c.k = "num" -> [ok |-> TRUE, n |-> c.n, exc |-> ""]
      [] OTHER ->
           IF Len(c.s) = 1 /\ \E n \in Numerals : ToString(n) = c.s[1]
           THEN [ok |-> TRUE,
                 n |-> CHOOSE n \in Numerals : ToString(n) = c.s[1],
                 exc |-> ""]
           ELSE IF c.s = <<"inf">>
           THEN [ok |-> FALSE, n |-> 0, exc |-> "OverflowError"]
           ELSE [ok |-> FALSE, n |-> 0, exc |-> "ValueError"]

\* "except (ValueError, TypeError):"
CaughtByExcept(exc) == exc \in {"ValueError", "TypeError"}

\* selected.split(' {')[0] if ' {' in selected else selected
BaseValue(opt) == <<opt[1]>>

\* f"{value} {{{count}}}"
FormatOption(value, count) == value \o <<ToString(count) \o "}">>

-----------------------------------------------------------------------------
(* Sequence helpers *)

Range(seq) == {seq[i] : i \in 1..Len(seq)}

RECURSIVE Flatten(_)
Flatten(seqs) ==
    IF seqs = <<>> THEN <<>> ELSE Head(seqs) \o Flatten(Tail(seqs))

Min(S) == CHOOSE x \in S : \A y \in S : x <= y
Max(S) == CHOOSE x \in S : \A y \in S : x >= y

-----------------------------------------------------------------------------
(* The table.  df.columns is Main Category, Category, SubCategory and then *)
(* one column per document; a row holds one cell per document.             *)

\* df.columns[3:]
DocColumns(t) == t.docs

\* df[df['Category'] == name]
RowsByCategory(t, name) ==
    SelectSeq(t.rows, LAMBDA r : r.Category = name)

\* df[df['SubCategory'] == name]
RowsBySubCategory(t, name) ==
    SelectSeq(t.rows, LAMBDA r : r.SubCategory = name)

\* row[doc_col].iloc[0]: the cell of the first of the rows
FirstCell(rows, doc) == rows[1].cell[doc]

\* rows[doc_col].dropna().astype(str), then "if value and value != 'nan'"
ColumnStrings(rows, doc) ==
    LET strs == [i \in 1..Len(rows) |->
                    IF rows[i].cell[doc].k = "nan" THEN <<>>
                    ELSE <<PyStr(rows[i].cell[doc])>>]
    IN  Flatten(strs)

\* the int(float(.)) loop shared by get_publication_years and
\* get_sample_sizes: the numbers parsed, in column order (vals), or an
\* uncaught exception (raised)
ParsedNumbers(t, rows) ==
    LET strs == Flatten([i \in 1..Len(t.docs) |-> ColumnStrings(rows, t.docs[i])])
        res  == [i \in 1..Len(strs) |-> IntFloat(Text(strs[i]))]
    IN  IF \E i \in 1..Len(strs) : ~res[i].ok /\ ~CaughtByExcept(res[i].exc)
        THEN [raised |-> TRUE, vals |-> <<>>]
        ELSE [raised |-> FALSE,
              vals |-> Flatten([i \in 1..Len(strs) |->
                                   IF res[i].ok THEN <<res[i].n>> ELSE <<>>])]

DefaultYears == [raised |-> FALSE, vals |-> <<2011, 2025>>]

\* a variant that reads df['Category'] without asking for the column
YearsAssumingColumns(t) ==
    IF ~t.header THEN [raised |-> TRUE, vals |-> <<>>]
    ELSE IF RowsByCategory(t, "publication_year") # <<>>
    THEN ParsedNumbers(t, RowsByCategory(t, "publication_year"))
    ELSE DefaultYears

get_publication_years(t) ==
    IF t.header /\ RowsByCategory(t, "publication_year") # <<>>
    THEN ParsedNumbers(t, RowsByCategory(t, "publication_year"))
    ELSE DefaultYears

\* the fixed ceiling of the sample-size slider
Ceiling == 10000

DefaultSizes == [raised |-> FALSE, vals |-> <<50, 10000, 15000>>]

\* [min_size, min(10000, actual_max), actual_max]
get_sample_sizes(t) ==
    IF t.header
    THEN LET sizes == ParsedNumbers(t, RowsBySubCategory(t, "total_size"))
         IN  IF sizes.raised THEN sizes
             ELSE IF sizes.vals # <<>>
             THEN LET actual_max == Max(Range(sizes.vals))
                  IN  [raised |-> FALSE,
                       vals |-> <<Min(Range(sizes.vals)),
                                  IF Ceiling < actual_max THEN Ceiling
                                  ELSE actual_max,
                                  actual_max>>]
             ELSE DefaultSizes
    ELSE DefaultSizes

-----------------------------------------------------------------------------
(* get_unique_values_filtered *)

RECURSIVE FirstOccurrences(_)
FirstOccurrences(seq) ==
    IF seq = <<>> THEN <<>>
    ELSE LET rest == FirstOccurrences(SubSeq(seq, 1, Len(seq) - 1))
             x    == seq[Len(seq)]
         IN  IF x \in Range(rest) THEN rest ELSE Append(rest, x)

Occurrences(x, seq) == Cardinality({i \in 1..Len(seq) : seq[i] = x})

\* a variant that leaves the entries in the dict's insertion order
InInsertionOrder(items) == items

\* sorted(value_counts.items(), key=count, reverse=True): a stable sort,
\* entries of equal count stay in the dict's insertion order
RECURSIVE SortedByCount(_)
SortedByCount(items) ==
    IF items = <<>> THEN <<>>
    ELSE LET rest == SortedByCount(SubSeq(items, 1, Len(items) - 1))
             x    == items[Len(items)]
             pos  == Cardinality({i \in 1..Len(rest) : rest[i][2] >= x[2]})
         IN  SubSeq(rest, 1, pos) \o <<x>> \o SubSeq(rest, pos + 1, Len(rest))

\* the (value, count) pairs in decreasing order of count
ValueCounts(rows, docs) ==
    LET values == Flatten([i \in 1..Len(docs) |->
                     SelectSeq(ColumnStrings(rows, docs[i]),
                               LAMBDA v : v # <<"">> /\ v # <<"nan">>)])
        keys   == FirstOccurrences(values)
    IN  SortedByCount([i \in 1..Len(keys) |->
                          <<keys[i], Occurrences(keys[i], values)>>])

get_unique_values_filtered(t, category_name, subcategory_name, docs) ==
    IF docs = <<>> THEN <<All>>
    ELSE LET rows == IF subcategory_name # NoName
                     THEN RowsBySubCategory(t, subcategory_name)
                     ELSE RowsByCategory(t, category_name)
             vc   == ValueCounts(rows, docs)
         IN  <<All>> \o [i \in 1..Len(vc) |-> FormatOption(vc[i][1], vc[i][2])]

-----------------------------------------------------------------------------
(* count_matching_documents *)

\* one range block of the loop body (year, sample size): "pass" leaves
\* matches_all_criteria alone, "fail" clears it, "raise" leaves the function
RangeCheck(cell, range) ==
    IF ~Truthy(cell) THEN "pass"
    ELSE LET r == IntFloat(cell)
         IN  IF r.ok
             THEN IF r.n < range[1] \/ r.n > range[2] THEN "fail" ELSE "pass"
             ELSE IF CaughtByExcept(r.exc) THEN "fail" ELSE "raise"

\* a variant of the categorical block in which the value has to equal
\* every selected value
CategoricalCheckEvery(cell, selection) ==
    IF ~Truthy(cell) THEN "pass"
    ELSE IF \A i \in 1..Len(selection) : PyStr(cell) = BaseValue(selection[i])
         THEN "pass"
         ELSE "fail"

\* one categorical block of the loop body, entered when the selection is
\* non-empty and does not hold "All" and the attribute's row exists
CategoricalCheck(cell, selection) ==
    IF ~Truthy(cell) THEN "pass"
    ELSE IF \E i \in 1..Len(selection) : PyStr(cell) = BaseValue(selection[i])
         THEN "pass"
         ELSE "fail"

\* "if selection and 'All' not in selection and name in df[...].values"
CategoricalEnabled(selection, rows) ==
    selection # <<>> /\ All \notin Range(selection) /\ rows # <<>>

\* the body of the loop for one document column
DocOutcome(t, doc, yr, ssr, pt, fs, sd) ==
    LET year_row   == RowsByCategory(t, "publication_year")
        size_row   == RowsBySubCategory(t, "total_size")
        pub_row    == RowsByCategory(t, "publication_type")
        fund_row   == RowsBySubCategory(t, "type")
        design_row == RowsBySubCategory(t, "primary_type")
        year   == IF year_row # <<>>
                  THEN RangeCheck(FirstCell(year_row, doc), yr) ELSE "pass"
        size   == IF ssr # None /\ size_row # <<>>
                  THEN RangeCheck(FirstCell(size_row, doc), ssr) ELSE "pass"
        pub    == IF CategoricalEnabled(pt, pub_row)
                  THEN CategoricalCheck(FirstCell(pub_row, doc), pt) ELSE "pass"
        fund   == IF CategoricalEnabled(fs, fund_row)
                  THEN CategoricalCheck(FirstCell(fund_row, doc), fs) ELSE "pass"
        design == IF CategoricalEnabled(sd, design_row)
                  THEN CategoricalCheck(FirstCell(design_row, doc), sd) ELSE "pass"
    IN  IF year = "raise" \/ (size = "raise") THEN "raise"
        ELSE IF {year, size, pub, fund, design} = {"pass"} THEN "match"
        ELSE "nomatch"

count_matching_documents(t, yr, ssr, pt, fs, sd) ==
    LET docs == DocColumns(t)
    IN  IF \E i \in 1..Len(docs) :
               DocOutcome(t, docs[i], yr, ssr, pt, fs, sd) = "raise"
        THEN Raised
        ELSE SelectSeq(docs, LAMBDA doc :
                 DocOutcome(t, doc, yr, ssr, pt, fs, sd) = "match")

-----------------------------------------------------------------------------
(* The tables the model draws from.  A table has the rows the facets read: *)
(* publication_year, publication_type, funding_source.type,                *)
(* study_design.primary_type, sample_characteristics.total_size, and one   *)
(* more row whose SubCategory is also "type" (rows are selected by         *)
(* SubCategory alone, whatever their Category).  Each document column is   *)
(* one of the profiles below.                                              *)

Profile(year, pub, fund, other, design, size) ==
    [year |-> year, pub |-> pub, fund |-> fund, other |-> other,
     design |-> design, size |-> size]

ProfileA ==
    Profile(Num(2021), Text(<<"RCT">>), Text(<<"Industry">>), NaN,
            Text(<<"Cohort">>), Num(50))

\* a second "type" cell, and a sample size above the slider's ceiling
ProfileB ==
    Profile(Num(2019), Text(<<"Review">>), Text(<<"Government">>),
            Text(<<"Industry">>), Text(<<"Survey">>), Num(12000))

\* a sample size of zero
ProfileC ==
    Profile(Num(2023), Text(<<"RCT">>), Text(<<"Government">>), NaN,
            Text(<<"Cohort">>), Num(0))

\* nothing stored but the second "type" cell
ProfileD ==
    Profile(NaN, NaN, NaN, Text(<<"Industry">>), NaN, NaN)

\* texts that are no numbers
ProfileE ==
    Profile(Text(<<"unknown">>), Text(<<"Review">>),
            Text(<<"Industry">>), NaN, Text(<<"Survey">>),
            Text(<<"unknown">>))

\* numeric cells holding zero
ProfileF ==
    Profile(Num(0), Num(0), Text(<<"Government">>), NaN,
            Text(<<"Cohort">>), Num(120))

\* numbers stored as text, and a publication type holding " {"
ProfileG ==
    Profile(Text(<<"2021">>), Text(<<"RCT", "pilot}">>), NaN, NaN,
            Text(<<"Cohort">>), Text(<<"50">>))

\* a year that float() reads as infinity
ProfileH ==
    Profile(Text(<<"inf">>), Text(<<"RCT">>), Text(<<"Industry">>), NaN,
            Text(<<"Cohort">>), Num(50))

Profiles ==
    <<ProfileA, ProfileB, ProfileC, ProfileD, ProfileE, ProfileF, ProfileG,
      ProfileH>>

DocName(i) == "doc" \o ToString(i)

Row(category, subcategory, docs, cells) ==
    [Category |-> category, SubCategory |-> subcategory,
     cell |-> [d \in Range(docs) |->
                  cells[CHOOSE i \in 1..Len(docs) : docs[i] = d]]]

\* the table whose i-th document column is profile p[i]
Table(p) ==
    LET docs == [i \in 1..Len(p) |-> DocName(i)]
    IN  [header |-> TRUE,
         docs   |-> docs,
         rows   |-> <<
           Row("publication_year", "", docs, [i \in 1..Len(p) |-> p[i].year]),
           Row("publication_type", "", docs, [i \in 1..Len(p) |-> p[i].pub]),
           Row("funding_source", "type", docs, [i \in 1..Len(p) |-> p[i].fund]),
           Row("product_characteristics", "type", docs,
               [i \in 1..Len(p) |-> p[i].other]),
           Row("study_design", "primary_type", docs,
               [i \in 1..Len(p) |-> p[i].design]),
           Row("sample_characteristics", "total_size", docs,
               [i \in 1..Len(p) |-> p[i].size]) >>]

\* The session-state initialisation calls get_publication_years and
\* get_sample_sizes before anything else runs; a table on which one of
\* them raises never gets a session.
SessionStarts(t) ==
    ~get_publication_years(t).raised /\ ~get_sample_sizes(t).raised

\* the tables of the filter specification: the columns walk through the
\* profiles from any start, taking every profile or every third one
Tables ==
    {Table([i \in 1..NumDocs |->
               Profiles[((k + (i - 1) * stride) % Len(Profiles)) + 1]]) :
        k \in 0..(Len(Profiles) - 1), stride \in {1, 3}}

-----------------------------------------------------------------------------
(* The session: state after the session-state initialisation of the first  *)
(* script run, the widget callbacks, and the script run (rerun).           *)

\* the tables of the session specification: the columns repeat the
\* profiles below in turn, starting from any of them
SessionColumns == <<ProfileA, ProfileB, ProfileC, ProfileG>>

SessionTables ==
    {t \in {Table([i \in 1..NumDocs |->
                     SessionColumns[((i + k) % Len(SessionColumns)) + 1]]) :
               k \in 0..(Len(SessionColumns) - 1)} :
        SessionStarts(t)}

\* min(years), max(years), or 2011, 2025 when no year parsed
YearBounds(t) ==
    LET years == get_publication_years(t).vals
    IN  IF years # <<>> THEN <<Min(Range(years)), Max(Range(years))>>
        ELSE <<2011, 2025>>

NoEvent == [kind |-> "none", selection |-> <<>>, before |-> <<>>]

\* nothing extracted yet
NoExtraction == categories_to_extract = <<>> /\ insights = <<>>

\* no RAGSystem object yet
NoRetrieval ==
    /\ rag_system = [is_initialized |-> FALSE, faiss_index |-> FALSE,
                     page_metadata |-> <<>>]
    /\ search_call = [fn |-> "none", top_k |-> 0, scores |-> <<>>,
                      condition |-> "none"]
    /\ search_results = <<>>
    /\ formatted_results = <<>>

\* no key of the page set, no bulk job started, no collaborator called
NoCalls ==
    [initialize_rag_system |-> 0, transcribe_audio |-> <<>>,
     read_excel |-> "none", script_runs |-> 0,
     markdown |-> [topic_name |-> "", tab_index |-> -1,
                   insights_key |-> <<>>, shown |-> <<>>]]

\* the coroutines of a job that has not started
NoJob == [job |-> "idle", coros |-> <<>>]

NoPage ==
    /\ session_state = <<>>
    /\ tasks = NoJob
    /\ calls = NoCalls

Init ==
    /\ df \in SessionTables
    /\ publication_type = <<All>>
    /\ funding_source = <<All>>
    /\ study_design = <<All>>
    /\ year_range = YearBounds(df)
    /\ enable_sample_size = FALSE
    /\ sample_size_filter = get_sample_sizes(df).vals
    /\ sample_size_slider = None
    /\ publication_types = <<>>
    /\ funding_sources = <<>>
    /\ study_designs = <<>>
    /\ initial_docs = <<>>
    /\ docs_after_pub_type = <<>>
    /\ docs_after_funding = <<>>
    /\ matching_docs = <<>>
    /\ submitted = NoEvent
    /\ NoExtraction
    /\ NoRetrieval
    /\ NoPage
    /\ pc = "start"

\* the sub-lists of a list, in the list's order
RECURSIVE SubLists(_)
SubLists(seq) ==
    IF seq = <<>> THEN {<<>>}
    ELSE LET rest == SubLists(Tail(seq))
         IN  rest \cup {<<Head(seq)>> \o r : r \in rest}

\* a variant of the callbacks that ignores the stored selection
AlwaysCollapseToAll(select, stored) ==
    IF All \in Range(select) /\ Len(select) > 1 THEN <<All>> ELSE select

\* the new stored selection of on_publication_type_change,
\* on_funding_source_change and on_study_design_change
OnSelectionChange(select, stored) ==
    IF All \in Range(select) /\ Len(select) > 1
    THEN IF All \notin Range(stored)
         THEN <<All>>
         ELSE SelectSeq(select, LAMBDA opt : opt # All)
    ELSE select

derived == <<publication_types, funding_sources, study_designs, initial_docs,
             docs_after_pub_type, docs_after_funding, matching_docs>>

\* everything the filter panel keeps
session == <<df, year_range, publication_type, funding_source, study_design,
             enable_sample_size, sample_size_filter, sample_size_slider,
             submitted, derived>>

on_publication_type_change ==
    /\ pc = "idle"
    /\ \E select \in SubLists(publication_types) :
          /\ publication_type' = OnSelectionChange(select, publication_type)
          /\ submitted' = [kind |-> "publication_type", selection |-> select,
                           before |-> publication_type]
    /\ pc' = "callback"
    /\ UNCHANGED <<df, year_range, funding_source, study_design,
                   enable_sample_size, sample_size_filter, sample_size_slider,
                   derived, extraction, retrieval, page>>

on_funding_source_change ==
    /\ pc = "idle"
    /\ \E select \in SubLists(funding_sources) :
          /\ funding_source' = OnSelectionChange(select, funding_source)
          /\ submitted' = [kind |-> "funding_source", selection |-> select,
                           before |-> funding_source]
    /\ pc' = "callback"
    /\ UNCHANGED <<df, year_range, publication_type, study_design,
                   enable_sample_size, sample_size_filter, sample_size_slider,
                   derived, extraction, retrieval, page>>

on_study_design_change ==
    /\ pc = "idle"
    /\ \E select \in SubLists(study_designs) :
          /\ study_design' = OnSelectionChange(select, study_design)
          /\ submitted' = [kind |-> "study_design", selection |-> select,
                           before |-> study_design]
    /\ pc' = "callback"
    /\ UNCHANGED <<df, year_range, publication_type, funding_source,
                   enable_sample_size, sample_size_filter, sample_size_slider,
                   derived, extraction, retrieval, page>>

\* the positions of the year slider the model moves it to
YearPoints == {2019, 2021}

on_year_range_change ==
    /\ pc = "idle"
    /\ \E lo \in YearPoints, hi \in YearPoints :
          /\ YearBounds(df)[1] <= lo /\ lo <= hi /\ hi <= YearBounds(df)[2]
          /\ year_range' = <<lo, hi>>
          /\ submitted' = [kind |-> "year_range", selection |-> <<>>,
                           before |-> <<>>]
    /\ pc' = "callback"
    /\ UNCHANGED <<df, publication_type, funding_source, study_design,
                   enable_sample_size, sample_size_filter, sample_size_slider,
                   derived, extraction, retrieval, page>>

on_enable_sample_size_change ==
    /\ pc = "idle"
    /\ enable_sample_size' = ~enable_sample_size
    /\ submitted' = [kind |-> "enable_sample_size", selection |-> <<>>,
                     before |-> <<>>]
    /\ pc' = "callback"
    /\ UNCHANGED <<df, year_range, publication_type, funding_source,
                   study_design, sample_size_filter, sample_size_slider,
                   derived, extraction, retrieval, page>>

\* the positions of the sample-size slider the model moves it to
SizePoints == {0, 50, 120, 10000}

\* a variant that applies the slider's values as they are
SliderValuesAsFilter(values, sizes) == values

\* the filter stored for the slider's values: from the ceiling on, the upper
\* bound is the actual maximum
AppliedSizeFilter(values, sizes) ==
    IF values[2] >= Ceiling THEN <<values[1], sizes[3]>> ELSE values

on_sample_size_change ==
    /\ pc = "idle"
    /\ sample_size_slider # None
    /\ \E lo \in SizePoints, hi \in SizePoints :
          LET sizes == get_sample_sizes(df).vals
          IN  /\ sizes[1] <= lo /\ lo <= hi /\ hi <= sizes[2]
              /\ sample_size_slider' = <<lo, hi>>
              /\ sample_size_filter' = AppliedSizeFilter(<<lo, hi>>, sizes)
    /\ submitted' = [kind |-> "sample_size", selection |-> <<>>,
                     before |-> <<>>]
    /\ pc' = "callback"
    /\ UNCHANGED <<df, year_range, publication_type, funding_source,
                   study_design, enable_sample_size, derived, extraction, retrieval, page>>

\* the revalidation of a stored selection against a fresh option list
KeepFirstOnly(selection, options) ==
    LET base_options == [i \in 1..Len(options) |-> BaseValue(options[i])]
        kept == SelectSeq(selection,
                    LAMBDA val : BaseValue(val) \in Range(base_options))
    IN  IF kept = <<>> THEN <<All>> ELSE <<kept[1]>>

Revalidate(selection, options) ==
    LET base_options == <<All>> \o
            [i \in 1..Len(options) |-> BaseValue(options[i])]
        MatchingOptions(base_val) ==
            SelectSeq(options, LAMBDA opt : BaseValue(opt) = base_val)
        valid == Flatten([i \in 1..Len(selection) |->
            LET base_val == BaseValue(selection[i])
            IN  IF base_val \in Range(base_options) \/ base_val = All
                THEN IF base_val = All THEN <<All>>
                     ELSE IF MatchingOptions(base_val) # <<>>
                          THEN <<MatchingOptions(base_val)[1]>>
                          ELSE <<>>
                ELSE <<>>])
    IN  IF valid = <<>> THEN <<All>> ELSE valid

\* the value st.slider returns for the sample-size slider: the widget's own
\* value when the widget of the previous run is found again, else the
\* value= it is created with.  Which of the two depends on how the
\* framework identifies the widget; both are kept.
SliderReturns(default) ==
    {default} \cup (IF sample_size_slider # None THEN {sample_size_slider} ELSE {})

\* a variant of the script run in which the funding-source options are
\* counted over the documents of the year range alone
DocsAfterYearOnly(t, yr, pt) ==
    count_matching_documents(t, yr, None, <<All>>, <<All>>, <<All>>)

\* "Filter docs after applying publication type": the documents the
\* funding-source options are counted over
DocsAfterPubType(t, yr, pt) ==
    count_matching_documents(t, yr, None, pt, <<All>>, <<All>>)

\* one run of the script: the sidebar from the year slider to the
\* sample-size slider, and the final count_matching_documents
Rerun ==
    /\ initial_docs' = count_matching_documents(df, year_range, None,
                           <<All>>, <<All>>, <<All>>)
    /\ publication_types' = get_unique_values_filtered(df, "publication_type",
                                NoName, initial_docs')
    /\ publication_type' = Revalidate(publication_type, publication_types')
    /\ docs_after_pub_type' = DocsAfterPubType(df, year_range,
                                  publication_type')
    /\ funding_sources' = get_unique_values_filtered(df, NoName, "type",
                              docs_after_pub_type')
    /\ funding_source' = Revalidate(funding_source, funding_sources')
    /\ docs_after_funding' = count_matching_documents(df, year_range, None,
                                 publication_type', funding_source', <<All>>)
    /\ study_designs' = get_unique_values_filtered(df, NoName, "primary_type",
                            docs_after_funding')
    /\ study_design' = Revalidate(study_design, study_designs')
    /\ IF enable_sample_size
       THEN LET sizes        == get_sample_sizes(df).vals
                current_min  == sample_size_filter[1]
                current_max  == sample_size_filter[2]
                slider_min   == IF current_min >= sizes[1] THEN current_min
                                ELSE sizes[1]
                adjusted_max == IF current_max > Ceiling THEN Ceiling
                                ELSE current_max
            IN  \E sample_size_values \in
                        SliderReturns(<<slider_min, adjusted_max>>) :
                   /\ sample_size_slider' = sample_size_values
                   /\ sample_size_filter' =
                         AppliedSizeFilter(sample_size_values, sizes)
       ELSE /\ sample_size_slider' = None
            /\ sample_size_filter' = sample_size_filter
    /\ matching_docs' = count_matching_documents(df, year_range,
                            IF enable_sample_size THEN sample_size_filter'
                            ELSE None,
                            publication_type', funding_source', study_design')
    /\ submitted' = [kind |-> "rerun", selection |-> <<>>,
                     before |-> <<publication_type, funding_source,
                                  study_design>>]
    /\ pc' = "idle"
    /\ UNCHANGED <<df, year_range, enable_sample_size, extraction, retrieval, page>>

\* the session of the categorical pickers, the year slider and the
\* sample-size checkbox
Next ==
    \/ Rerun
    \/ on_publication_type_change
    \/ on_funding_source_change
    \/ on_study_design_change
    \/ on_year_range_change
    \/ on_enable_sample_size_change

Spec == Init /\ [][Next]_vars

\* the session of the sample-size checkbox and slider and the
\* publication-type picker
NextSize ==
    \/ Rerun
    \/ on_enable_sample_size_change
    \/ on_sample_size_change
    \/ on_publication_type_change

SpecSize == Init /\ [][NextSize]_vars

-----------------------------------------------------------------------------
(* count_matching_documents as a function of its inputs: a table and a     *)
(* facet set are drawn and the function is applied to them.                *)

InitFilter ==
    /\ df \in Tables
    /\ publication_type = <<All>>
    /\ funding_source = <<All>>
    /\ study_design = <<All>>
    /\ year_range = YearBounds(df)
    /\ enable_sample_size = FALSE
    /\ sample_size_filter = get_sample_sizes(df).vals
    /\ sample_size_slider = None
    /\ publication_types = <<>>
    /\ funding_sources = <<>>
    /\ study_designs = <<>>
    /\ initial_docs = <<>>
    /\ docs_after_pub_type = <<>>
    /\ docs_after_funding = <<>>
    /\ matching_docs = <<>>
    /\ submitted = NoEvent
    /\ NoExtraction
    /\ NoRetrieval
    /\ NoPage
    /\ pc = "start"

QueryYearRanges(t) == {YearBounds(t), <<2020, 2022>>, <<2019, 2021>>}

QuerySizeRanges == {None, <<50, 120>>, <<0, 12000>>}

\* [All], or up to MaxSelected of the options the attribute has over all
\* the documents of the table
QuerySelections(t, category_name, subcategory_name) ==
    {<<All>>} \cup
    {sel \in SubLists(Tail(get_unique_values_filtered(t, category_name,
                                subcategory_name, DocColumns(t)))) :
        Len(sel) >= 1 /\ Len(sel) <= MaxSelected}

Query ==
    /\ pc = "start"
    /\ \E yr \in QueryYearRanges(df), ssr \in QuerySizeRanges,
          pt \in QuerySelections(df, "publication_type", NoName),
          fs \in QuerySelections(df, NoName, "type"),
          sd \in QuerySelections(df, NoName, "primary_type") :
          /\ year_range' = yr
          /\ enable_sample_size' = (ssr # None)
          /\ sample_size_filter' = IF ssr # None THEN ssr ELSE sample_size_filter
          /\ publication_type' = pt
          /\ funding_source' = fs
          /\ study_design' = sd
          /\ matching_docs' = count_matching_documents(df, yr, ssr, pt, fs, sd)
    /\ pc' = "query"
    /\ UNCHANGED <<df, sample_size_slider, publication_types, funding_sources,
                   study_designs, initial_docs, docs_after_pub_type,
                   docs_after_funding, submitted, extraction, retrieval, page>>

SpecFilter == InitFilter /\ [][Query]_vars

-----------------------------------------------------------------------------
(* extract_research_insights_from_docs (insights_utils.py).  A Category,   *)
(* SubCategory or path is the sequence of its words and of the single      *)
(* characters between them: "statistical_summary.primary_outcomes" is      *)
(* <<"statistical_summary", ".", "primary_outcomes">>.  A missing name is  *)
(* <<>>.                                                                   *)

\* the pieces of a name that are one character long
Separators == {".", "_"}

\* Series.str.contains(path, na=False): the path is searched as a regular
\* expression, in which "." stands for any one character
StrContains(name, pattern) ==
    \E i \in 1..(Len(name) - Len(pattern) + 1) :
        \A j \in 1..Len(pattern) :
            \/ pattern[j] = name[i + j - 1]
            \/ pattern[j] = "." /\ name[i + j - 1] \in Separators

\* subcategory_rows: the rows a path resolves to
SubcategoryRows(t, subcategory) ==
    LET exact       == SelectSeq(t.rows, LAMBDA r : r.Category = subcategory)
        partial     == SelectSeq(t.rows,
                           LAMBDA r : StrContains(r.Category, subcategory))
        sub_exact   == SelectSeq(t.rows, LAMBDA r : r.SubCategory = subcategory)
        sub_partial == SelectSeq(t.rows,
                           LAMBDA r : StrContains(r.SubCategory, subcategory))
    IN  IF exact # <<>> THEN exact
        ELSE IF partial # <<>> THEN partial
        ELSE IF sub_exact # <<>> THEN sub_exact
        ELSE sub_partial

\* str(item).strip() == ""
Blank(c) == c.k = "str" /\ c.s \in {<<"">>, <<" ">>}

\* subcategory_rows[doc_col].dropna().tolist()
SubcategoryData(rows, doc) ==
    SelectSeq([i \in 1..Len(rows) |-> rows[i].cell[doc]], LAMBDA c : c # NaN)

\* "if subcategory_data and any(str(item).strip() != '' ...)"
HasData(data) ==
    data # <<>> /\ \E i \in 1..Len(data) : ~Blank(data[i])

\* category_insights of one topic for one document
CategoryInsights(t, doc, subcategories) ==
    LET included == {i \in 1..Len(subcategories) :
                        /\ SubcategoryRows(t, subcategories[i]) # <<>>
                        /\ HasData(SubcategoryData(
                               SubcategoryRows(t, subcategories[i]), doc))}
    IN  [path \in {subcategories[i] : i \in included} |->
            SubcategoryData(SubcategoryRows(t, path), doc)]

\* a variant that keeps every topic of the schema
EveryTopic(t, doc, schema) ==
    [topic \in {schema[i][1] : i \in 1..Len(schema)} |->
        CategoryInsights(t, doc,
            schema[CHOOSE i \in 1..Len(schema) : schema[i][1] = topic][2])]

\* doc_insights of one document; the schema is the list of the dict's
\* (topic, paths) items
DocInsights(t, doc, schema) ==
    LET included == {i \in 1..Len(schema) :
                        DOMAIN CategoryInsights(t, doc, schema[i][2]) # {}}
    IN  [topic \in {schema[i][1] : i \in included} |->
            CategoryInsights(t, doc,
                schema[CHOOSE i \in included : schema[i][1] = topic][2])]

\* the title cell of a document; without a title row the title stays None,
\* which names the document like a missing title does
TitleCell(t, doc) ==
    LET meta == SelectSeq(t.rows, LAMBDA r :
                    r.Main = "meta_data" /\ r.Category = <<"title">>)
        any  == SelectSeq(t.rows, LAMBDA r : r.Category = <<"title">>)
    IN  IF meta # <<>> THEN meta[1].cell[doc]
        ELSE IF any # <<>> THEN any[1].cell[doc]
        ELSE NaN

\* doc_identifier = title if title and not pd.isna(title) else doc_col
DocIdentifier(t, doc) ==
    LET title == TitleCell(t, doc)
    IN  IF title # NaN /\ Truthy(title) THEN PyStr(title)
        ELSE <<doc>>

\* the dict returned: document identifier -> topic -> path -> list
RECURSIVE extract_research_insights_from_docs(_, _, _)
extract_research_insights_from_docs(t, docs, schema) ==
    IF docs = <<>> THEN <<>>
    ELSE LET before       == extract_research_insights_from_docs(t,
                                 SubSeq(docs, 1, Len(docs) - 1), schema)
             doc_col      == docs[Len(docs)]
             doc_insights == DocInsights(t, doc_col, schema)
             id           == DocIdentifier(t, doc_col)
         IN  IF DOMAIN doc_insights = {} THEN before
             ELSE [key \in DOMAIN before \cup {id} |->
                      IF key = id THEN doc_insights ELSE before[key]]

\* The tables the extraction is applied to: a choice of up to MaxRows of
\* the rows below for the paths, with or without a title row.  The cell of
\* row r for document i walks through CellCycle from a drawn start.

MainConclusions == <<"main_conclusions">>
Limitations == <<"limitations">>
PrimaryOutcomes == <<"statistical_summary", ".", "primary_outcomes">>
NovelFindings == <<"novel_findings">>

CellCycle ==
    <<Text(<<"reduced exposure">>), NaN, Text(<<" ">>), Text(<<"small sample">>),
      Text(<<"">>), Num(0)>>

RowNames ==
    << [Main |-> "results", Category |-> MainConclusions, SubCategory |-> <<>>],
       [Main |-> "results",
        Category |-> <<"main_conclusions", "_", "summary">>,
        SubCategory |-> <<>>],
       [Main |-> "results", Category |-> <<"outcomes">>,
        SubCategory |-> MainConclusions],
       [Main |-> "results", Category |-> <<"outcomes">>,
        SubCategory |-> <<"main_conclusions", "_", "detail">>],
       [Main |-> "quality", Category |-> <<"study", "_", "limitations">>,
        SubCategory |-> <<>>],
       [Main |-> "results",
        Category |-> <<"statistical_summary", "_", "primary_outcomes">>,
        SubCategory |-> <<>>],
       [Main |-> "discussion", Category |-> MainConclusions,
        SubCategory |-> <<"overall">>],
       [Main |-> "quality", Category |-> <<>>, SubCategory |-> Limitations] >>

\* largest number of path rows of a drawn table
MaxRows == 3

TitleRows ==
    { <<>>,
      <<[Main |-> "meta_data", Category |-> <<"title">>, SubCategory |-> <<>>]>>,
      <<[Main |-> "paper", Category |-> <<"title">>, SubCategory |-> <<>>]>> }

ExtractTable(names, titles, start) ==
    LET docs == [i \in 1..NumDocs |-> DocName(i)]
        Cells(r) == [d \in Range(docs) |->
            LET i == CHOOSE j \in 1..Len(docs) : docs[j] = d
            IN  CellCycle[((start + 2 * r + i) % Len(CellCycle)) + 1]]
        Titles == [d \in Range(docs) |->
            IF d = docs[2] THEN NaN ELSE Text(<<"Study of " \o d>>)]
    IN  [header |-> TRUE,
         docs   |-> docs,
         rows   |->
            [i \in 1..Len(titles) |->
                [Main |-> titles[i].Main, Category |-> titles[i].Category,
                 SubCategory |-> titles[i].SubCategory, cell |-> Titles]]
            \o
            [r \in 1..Len(names) |->
                [Main |-> names[r].Main, Category |-> names[r].Category,
                 SubCategory |-> names[r].SubCategory, cell |-> Cells(r)]]]

\* A table none of whose rows has a SubCategory is a sheet without that
\* column.  The same sheet with the column present and empty: read_excel
\* gives the column the dtype float64.
EmptySubColumn(t) ==
    [header |-> t.header, docs |-> t.docs, rows |-> t.rows,
     sub_column |-> "float64"]

HasEmptySubColumn(t) == "sub_column" \in DOMAIN t

\* df['SubCategory'].str raises AttributeError ("Can only use .str accessor
\* with string values") on a float64 column: the fourth tier of a path that
\* no Category matches raises
StrAccessorRaises(t, subcategory) ==
    /\ HasEmptySubColumn(t)
    /\ \A i \in 1..Len(t.rows) :
          /\ t.rows[i].Category # subcategory
          /\ ~StrContains(t.rows[i].Category, subcategory)

\* the call ends with an exception: the first document reaches such a path
ExtractionRaises(t, docs, schema) ==
    /\ docs # <<>>
    /\ \E i \in 1..Len(schema) : \E j \in 1..Len(schema[i][2]) :
          StrAccessorRaises(t, schema[i][2][j])

PlainExtractTables ==
    {ExtractTable(names, titles, start) :
        names \in {n \in SubLists(RowNames) : Len(n) >= 1 /\ Len(n) <= MaxRows},
        titles \in TitleRows,
        start \in 0..(Len(CellCycle) - 1)}

ExtractTables ==
    PlainExtractTables
    \cup {EmptySubColumn(t) : t \in {u \in PlainExtractTables :
              \A i \in 1..Len(u.rows) : u.rows[i].SubCategory = <<>>}}

\* the schemas: the dict's items in order
Schemas ==
    { << <<"Key Findings", <<MainConclusions>> >> >>,
      << <<"Key Findings", <<MainConclusions, PrimaryOutcomes>> >>,
         <<"Limits", <<Limitations, NovelFindings>> >> >> }

InitExtract ==
    /\ df \in ExtractTables
    /\ categories_to_extract \in Schemas
    /\ insights = <<>>
    /\ publication_type = <<All>>
    /\ funding_source = <<All>>
    /\ study_design = <<All>>
    /\ year_range = <<2011, 2025>>
    /\ enable_sample_size = FALSE
    /\ sample_size_filter = DefaultSizes.vals
    /\ sample_size_slider = None
    /\ publication_types = <<>>
    /\ funding_sources = <<>>
    /\ study_designs = <<>>
    /\ initial_docs = <<>>
    /\ docs_after_pub_type = <<>>
    /\ docs_after_funding = <<>>
    /\ matching_docs = <<>>
    /\ submitted = NoEvent
    /\ NoRetrieval
    /\ NoPage
    /\ pc = "start"

\* research_insights = extract_research_insights_from_docs(df,
\* matching_docs, categories), for the documents handed over
Extract ==
    /\ pc = "start"
    /\ \E docs \in SubLists(DocColumns(df)) :
          /\ docs # <<>>
          /\ matching_docs' = docs
          /\ IF ExtractionRaises(df, docs, categories_to_extract)
             THEN insights' = Raised /\ pc' = "raised"
             ELSE /\ insights' = extract_research_insights_from_docs(df,
                                     docs, categories_to_extract)
                  /\ pc' = "extracted"
    /\ UNCHANGED <<df, year_range, publication_type, funding_source,
                   study_design, enable_sample_size, sample_size_filter,
                   sample_size_slider, publication_types, funding_sources,
                   study_designs, initial_docs, docs_after_pub_type,
                   docs_after_funding, submitted, categories_to_extract,
                   retrieval, page>>

SpecExtract == InitExtract /\ [][Extract]_vars

\* Sheets whose title row gives two documents the same title, or a document
\* none: the titles of the documents are drawn from TitleCells.
TitleCells == {Text(<<"Study A">>), Text(<<"Study B">>), NaN}

\* the table t with the cells of its title rows replaced
WithTitles(t, titles) ==
    [t EXCEPT !.rows =
        [i \in 1..Len(t.rows) |->
            IF t.rows[i].Category = <<"title">>
            THEN [t.rows[i] EXCEPT !.cell = titles]
            ELSE t.rows[i]]]

TitledTables ==
    {WithTitles(ExtractTable(names, titles, start), cells) :
        names \in {<<RowNames[1]>>, <<RowNames[1], RowNames[5]>>},
        titles \in TitleRows \ {<<>>},
        start \in 0..(Len(CellCycle) - 1),
        cells \in [{DocName(i) : i \in 1..NumDocs} -> TitleCells]}

InitTitles ==
    /\ df \in TitledTables
    /\ categories_to_extract \in Schemas
    /\ insights = <<>>
    /\ publication_type = <<All>>
    /\ funding_source = <<All>>
    /\ study_design = <<All>>
    /\ year_range = <<2011, 2025>>
    /\ enable_sample_size = FALSE
    /\ sample_size_filter = DefaultSizes.vals
    /\ sample_size_slider = None
    /\ publication_types = <<>>
    /\ funding_sources = <<>>
    /\ study_designs = <<>>
    /\ initial_docs = <<>>
    /\ docs_after_pub_type = <<>>
    /\ docs_after_funding = <<>>
    /\ matching_docs = <<>>
    /\ submitted = NoEvent
    /\ NoRetrieval
    /\ NoPage
    /\ pc = "start"

SpecTitles == InitTitles /\ [][Extract]_vars

-----------------------------------------------------------------------------
(* Retrieval: src/RAG_architecture.py *)

\* the largest number of passages an index holds here
MaxPassages == 5

\* top_k: int = 8
DefaultTopK == 8

\* the values of top_k tried
TopKs == {1, 3, DefaultTopK}

\* page_data["content"][:500]
ContentLimit == 500

\* content[:300]
ExcerptLimit == 300

\* "..."
Ellipsis == <<".", ".", ".">>

\* A text is the sequence of its characters.  The content of the p-th
\* passage: its length runs through the lengths around the two limits.
ContentLengths ==
    <<ContentLimit + 1, ExcerptLimit, 2, ExcerptLimit + 1, ContentLimit, 0>>

Letters == <<"a", "b", "c", "d", "e", "f">>

Content(p) ==
    [i \in 1..ContentLengths[((p - 1) % Len(ContentLengths)) + 1] |->
        IF i % 2 = 1 THEN Letters[((p - 1) % Len(Letters)) + 1] ELSE " "]

PdfNames == <<"smith2020.pdf", "lee2021.pdf", "khan2019.pdf">>

\* one entry of metadata.pkl: a page of a PDF with the attributes of its
\* document; the attributes of some documents lack keys
Passage(p) ==
    [pdf_name |-> PdfNames[(((p - 1) \div 2) % Len(PdfNames)) + 1],
     page_number |-> ((p - 1) % 2) + 1,
     content |-> Content(p),
     metadata |-> IF p % 2 = 1
                  THEN [Authors |-> "Smith", Journal |-> "Addiction",
                        DOI |-> "10.1/x", PublicationYear |-> "2020"]
                  ELSE [Authors |-> "Lee"]]

\* page_metadata as load_faiss_index reads it: one entry per vector
Corpus(n) == [p \in 1..n |-> Passage(p)]

\* the RAGSystem that initialize_rag_system returns: load_faiss_index gave
\* (None, None) when the files are not found, else the index and the pages
initialize_rag_system(found, n) ==
    IF ~found
    THEN [is_initialized |-> FALSE, faiss_index |-> FALSE,
          page_metadata |-> <<>>]
    ELSE [is_initialized |-> TRUE, faiss_index |-> TRUE,
          page_metadata |-> Corpus(n)]

\* Similarities are counted in ten-thousandths.  The similarity of a query
\* to each vector of the index stands for the query and its embedding.
ScoreValues == {9124, 8504, 8496}

\* the score the index puts in a result slot it cannot fill
LowestScore == -10000 * 10000

\* the passages by similarity to the query, best first, equal
\* similarities in insertion order
RECURSIVE BestFirst(_, _)
BestFirst(scores, ids) ==
    IF ids = {} THEN <<>>
    ELSE LET best == CHOOSE i \in ids : \A j \in ids :
                         \/ scores[i] > scores[j]
                         \/ scores[i] = scores[j] /\ i <= j
         IN  <<best>> \o BestFirst(scores, ids \ {best})

\* scores, indices = rag_system.faiss_index.search(query_embedding, top_k):
\* top_k slots, the unused ones filled with index -1; idx counts from 0
FaissSearch(scores, top_k) ==
    LET order == BestFirst(scores, DOMAIN scores)
    IN  [slot \in 1..top_k |->
            IF slot <= Len(order)
            THEN [score |-> scores[order[slot]], idx |-> order[slot] - 1]
            ELSE [score |-> LowestScore, idx |-> -1]]

\* list[idx] of Python: a negative index counts from the end
PyIndex(list, idx) ==
    IF idx >= 0 THEN list[idx + 1] ELSE list[Len(list) + idx + 1]

\* page_metadata[idx] raises IndexError, which "except Exception" catches,
\* when a slot passes "idx < len(page_metadata)" with an index before the
\* first entry
IndexError(list, idx) == idx < Len(list) /\ idx < 0 - Len(list)

\* a variant that adds the ellipsis from the limit on
TruncatedFromLimit(content, limit) ==
    IF Len(content) >= limit
    THEN SubSeq(content, 1, limit) \o Ellipsis
    ELSE content

\* content[:limit] + "..." if len(content) > limit else content
Truncated(content, limit) ==
    IF Len(content) > limit
    THEN SubSeq(content, 1, limit) \o Ellipsis
    ELSE content

\* a variant that numbers a result by the position of its page
RankByPage(i, hit, page_data) ==
    [rank |-> hit.idx + 1,
     score |-> hit.score,
     pdf_name |-> page_data.pdf_name,
     page_number |-> page_data.page_number,
     content |-> Truncated(page_data.content, ContentLimit),
     full_content |-> page_data.content,
     metadata |-> page_data.metadata]

\* result = {...} for the i-th slot, i counted from 1 here
SearchResult(i, hit, page_data) ==
    [rank |-> i,
     score |-> hit.score,
     pdf_name |-> page_data.pdf_name,
     page_number |-> page_data.page_number,
     content |-> Truncated(page_data.content, ContentLimit),
     full_content |-> page_data.content,
     metadata |-> page_data.metadata]

\* "for i, (score, idx) in enumerate(zip(scores[0], indices[0]))": a slot
\* gives a result "if idx < len(rag_system.page_metadata)"
RECURSIVE PrepareResults(_, _, _)
PrepareResults(hits, i, page_metadata) ==
    IF i > Len(hits) THEN <<>>
    ELSE (IF hits[i].idx < Len(page_metadata)
          THEN <<SearchResult(i, hits[i],
                              PyIndex(page_metadata, hits[i].idx))>>
          ELSE <<>>)
         \o PrepareResults(hits, i + 1, page_metadata)

\* what can happen inside a search: the embedding call and the search of
\* the index each succeed or raise
Outcomes == {"ok", "embedding_failed", "search_failed"}

\* search_documents_faiss(query, rag_system, openai_api_key, top_k): the
\* condition met and the list returned, [] after every exception
search_documents_faiss(scores, rag, outcome, top_k) ==
    IF ~rag.is_initialized \/ ~rag.faiss_index
    THEN [condition |-> "uninitialized", results |-> <<>>]
    ELSE IF outcome # "ok"
    THEN [condition |-> outcome, results |-> <<>>]
    ELSE IF \E slot \in 1..top_k :
                 IndexError(rag.page_metadata, FaissSearch(scores, top_k)[slot].idx)
    THEN [condition |-> "index_error", results |-> <<>>]
    ELSE [condition |-> "ok",
          results |-> PrepareResults(FaissSearch(scores, top_k), 1,
                                     rag.page_metadata)]

\* metadata.get(key, 'N/A')
MetaGet(metadata, key) ==
    IF key \in DOMAIN metadata THEN metadata[key] ELSE "N/A"

\* round(score, 3), for scores that are not half-way between thousandths
Round3(score) == ((score + 5) \div 10) * 10

\* formatted_result = {...}
FormattedResult(result) ==
    [title |-> <<result.pdf_name, " - Page ", result.page_number>>,
     excerpt |-> Truncated(result.full_content, ExcerptLimit),
     score |-> Round3(result.score),
     year |-> MetaGet(result.metadata, "PublicationYear"),
     source |-> result.pdf_name,
     page_number |-> result.page_number,
     authors |-> MetaGet(result.metadata, "Authors"),
     journal |-> MetaGet(result.metadata, "Journal"),
     doi |-> MetaGet(result.metadata, "DOI"),
     full_content |-> result.full_content]

\* get_relevant_documents(question, rag_system, top_k): the condition met,
\* the search results and the list returned
get_relevant_documents(scores, rag, has_api_key, outcome, top_k) ==
    IF ~rag.is_initialized
    THEN [condition |-> "uninitialized", search |-> <<>>,
          results |-> <<>>]
    ELSE IF ~has_api_key
    THEN [condition |-> "no_api_key", search |-> <<>>, results |-> <<>>]
    ELSE LET found == search_documents_faiss(scores, rag, outcome, top_k)
         IN  [condition |-> found.condition,
              search |-> found.results,
              results |-> [i \in 1..Len(found.results) |->
                              FormattedResult(found.results[i])]]

InitSearch ==
    /\ df = Table([i \in 1..NumDocs |-> ProfileA])
    /\ publication_type = <<All>>
    /\ funding_source = <<All>>
    /\ study_design = <<All>>
    /\ year_range = <<2011, 2025>>
    /\ enable_sample_size = FALSE
    /\ sample_size_filter = DefaultSizes.vals
    /\ sample_size_slider = None
    /\ publication_types = <<>>
    /\ funding_sources = <<>>
    /\ study_designs = <<>>
    /\ initial_docs = <<>>
    /\ docs_after_pub_type = <<>>
    /\ docs_after_funding = <<>>
    /\ matching_docs = <<>>
    /\ submitted = NoEvent
    /\ NoExtraction
    /\ NoRetrieval
    /\ NoPage
    /\ pc = "start"

\* rag_system = initialize_rag_system(api_key)
InitializeRag ==
    /\ pc = "start"
    /\ \E found \in BOOLEAN : \E n \in 0..MaxPassages :
          rag_system' = initialize_rag_system(found, n)
    /\ pc' = "ready"
    /\ UNCHANGED <<session, extraction, page, search_call, search_results,
                   formatted_results>>

\* a call of search_documents_faiss
Search ==
    /\ pc = "ready"
    /\ \E scores \in [1..Len(rag_system.page_metadata) -> ScoreValues] :
       \E outcome \in Outcomes : \E top_k \in TopKs :
          LET found == search_documents_faiss(scores, rag_system, outcome,
                                              top_k)
          IN  /\ search_call' = [fn |-> "search_documents_faiss",
                                 top_k |-> top_k, scores |-> scores,
                                 condition |-> found.condition]
              /\ search_results' = found.results
    /\ pc' = "searched"
    /\ UNCHANGED <<session, extraction, page, rag_system, formatted_results>>

\* a call of get_relevant_documents
Retrieve ==
    /\ pc = "ready"
    /\ \E scores \in [1..Len(rag_system.page_metadata) -> ScoreValues] :
       \E outcome \in Outcomes : \E has_api_key \in BOOLEAN :
       \E top_k \in TopKs :
          LET found == get_relevant_documents(scores, rag_system,
                                              has_api_key, outcome, top_k)
          IN  /\ search_call' = [fn |-> "get_relevant_documents",
                                 top_k |-> top_k, scores |-> scores,
                                 condition |-> found.condition]
              /\ search_results' = found.search
              /\ formatted_results' = found.results
    /\ pc' = "searched"
    /\ UNCHANGED <<session, extraction, page, rag_system>>

NextSearch == InitializeRag \/ Search \/ Retrieve

SpecSearch == InitSearch /\ [][NextSearch]_vars

-----------------------------------------------------------------------------
(* The bulk job: process_all_tabs_async (IB_NGP_Harm_Reduction_Insights.py) *)

\* the schemas of the topics, as far as the rows of the tables here go
TopicSchemas ==
    << << <<"Key Findings", <<MainConclusions, PrimaryOutcomes>> >>,
          <<"Limits", <<Limitations, NovelFindings>> >> >>,
       << <<"Key Findings", <<MainConclusions>> >> >>,
       << <<"Limits", <<Limitations>> >> >> >>

\* tab_configs; categories is the place of the topic's schema in
\* TopicSchemas
TabConfigs ==
    << [topic_name |-> "Overall", categories |-> 1,
        insights_key |-> "generated_overall_insights", index |-> 0],
       [topic_name |-> "Adverse Events", categories |-> 2,
        insights_key |-> "generated_adverse_events_insights", index |-> 2],
       [topic_name |-> "Perceived Benefits", categories |-> 3,
        insights_key |-> "generated_perceived_benefits_insights",
        index |-> 3],
       [topic_name |-> "Oral Health", categories |-> 2,
        insights_key |-> "generated_oral_health_insights", index |-> 4],
       [topic_name |-> "Respiratory Health", categories |-> 2,
        insights_key |-> "generated_respiratory_health_insights",
        index |-> 4],
       [topic_name |-> "Cardiovascular Health", categories |-> 2,
        insights_key |-> "generated_cardiovascular_health_insights",
        index |-> 4],
       [topic_name |-> "Research Trends", categories |-> 1,
        insights_key |-> "generated_research_trends_insights", index |-> 5],
       [topic_name |-> "Contradictions and Conflicts", categories |-> 3,
        insights_key |-> "generated_contradictions_and_conflicts_insights",
        index |-> 6],
       [topic_name |-> "Research Bias", categories |-> 2,
        insights_key |-> "generated_research_bias_insights", index |-> 7],
       [topic_name |-> "Publication Metrics", categories |-> 2,
        insights_key |-> "generated_publication_metrics_insights",
        index |-> 8] >>

\* topic_name.lower()
Lower(topic_name) ==
    CASE topic_name = "Overall" -> "overall"
      [] topic_name = "Adverse Events" -> "adverse events"
      [] topic_name = "Perceived Benefits" -> "perceived benefits"
      [] topic_name = "Oral Health" -> "oral health"
      [] topic_name = "Respiratory Health" -> "respiratory health"
      [] topic_name = "Cardiovascular Health" -> "cardiovascular health"
      [] topic_name = "Research Trends" -> "research trends"
      [] topic_name = "Contradictions and Conflicts" ->
             "contradictions and conflicts"
      [] topic_name = "Research Bias" -> "research bias"
      [] topic_name = "Publication Metrics" -> "publication metrics"
      [] OTHER -> topic_name

\* A key of st.session_state is the sequence of the pieces it is put
\* together from.
Key(name) == <<name>>

\* a variant that names the slot after the tab the topic is shown in
SlotOfTab(config) == <<"generated_insights_tab", config.index>>

\* insights_key = config["insights_key"]
InsightsKey(config) == Key(config.insights_key)

\* token_usage_key = f"{insights_key}_token_usage"
TokenUsageKey(config) == InsightsKey(config) \o <<"_token_usage">>

\* st.session_state[key] = value
Put(state, key, value) ==
    [k \in DOMAIN state \cup {key} |-> IF k = key THEN value ELSE state[k]]

\* [f"No {topic_name.lower()} insights found in the filtered documents."]
NoInsightsFound(topic_name) ==
    <<"No ", Lower(topic_name), " insights found in the filtered documents.">>

\* [f"Error generating {topic_name.lower()} insights: {str(e)}"]
ErrorGenerating(topic_name, e) ==
    <<"Error generating ", Lower(topic_name), " insights: ", e>>

\* the bullet points parsed from the answer of the external generator to
\* the prompt of the topic
BulletPoints(topic_name) == <<"bullet points", Lower(topic_name)>>

NoTokens ==
    [prompt_tokens |-> 0, completion_tokens |-> 0, total_tokens |-> 0]

\* response.usage of an answer
UsedTokens ==
    [prompt_tokens |-> 900, completion_tokens |-> 300, total_tokens |-> 1200]

\* generate_insights_with_gpt4o once the external call has ended: api is
\* what the call did ("ok", "error", "timeout"); every exception is caught
\* and becomes the message returned
generate_insights_with_gpt4o(topic_name, api) ==
    IF api = "ok"
    THEN <<BulletPoints(topic_name), UsedTokens>>
    ELSE <<ErrorGenerating(topic_name, api), NoTokens>>

\* what the external generator does for the ten tasks of one job
ApiCycle == <<"ok", "error", "ok", "timeout">>

ApiPlans ==
    {[i \in 1..Len(TabConfigs) |->
         IF k = 0 THEN "ok" ELSE ApiCycle[((i + k) % Len(ApiCycle)) + 1]] :
     k \in 0..2}

\* the tables of the bulk job: one row, the sheet with and without an
\* empty SubCategory column
BulkTables ==
    LET t == ExtractTable(<<RowNames[1]>>, <<>>, 0)
    IN  {t, EmptySubColumn(t)}

\* tasks = [process_single_tab(config) for config in tab_configs]
NewCoroutine(api) ==
    [pc |-> "created", api |-> api, branch |-> "none", raised |-> "none"]

\* a variant that ends the wait with the first exception of a task
FirstExceptionEnds(coros) ==
    \/ \E i \in 1..Len(coros) : coros[i].raised # "none"
    \/ \A i \in 1..Len(coros) : coros[i].pc = "done"

\* await asyncio.gather(*tasks, return_exceptions=True): the wait ends
\* when every task is done; an exception of a task is its result
GatherDone(coros) == \A i \in 1..Len(coros) : coros[i].pc = "done"

\* st.session_state[insights_key] = insights;
\* st.session_state[token_usage_key] = token_usage
SaveResults(state, config, result) ==
    Put(Put(state, InsightsKey(config), result[1]),
        TokenUsageKey(config), result[2])

InitBulk ==
    /\ df \in BulkTables
    /\ categories_to_extract = TopicSchemas[1]
    /\ insights = <<>>
    /\ publication_type = <<All>>
    /\ funding_source = <<All>>
    /\ study_design = <<All>>
    /\ year_range = <<2011, 2025>>
    /\ enable_sample_size = FALSE
    /\ sample_size_filter = DefaultSizes.vals
    /\ sample_size_slider = None
    /\ publication_types = <<>>
    /\ funding_sources = <<>>
    /\ study_designs = <<>>
    /\ initial_docs = <<>>
    /\ docs_after_pub_type = <<>>
    /\ docs_after_funding = <<>>
    /\ matching_docs = <<>>
    /\ submitted = NoEvent
    /\ NoRetrieval
    /\ NoPage
    /\ pc = "idle"

\* "Generate Insights" clicked with an API key: the documents matching the
\* filters are handed to asyncio.run(process_all_tabs_async(matching_docs)),
\* which creates the ten coroutines
GenerateInsights ==
    /\ pc = "idle"
    /\ tasks.job = "idle"
    /\ \E docs \in {<<>>, <<df.docs[2]>>, df.docs} : matching_docs' = docs
    /\ \E plan \in ApiPlans :
          tasks' = [job |-> "gathering",
                    coros |-> [i \in 1..Len(TabConfigs) |->
                                  NewCoroutine(plan[i])]]
    /\ pc' = "job"
    /\ UNCHANGED <<df, year_range, publication_type, funding_source,
                   study_design, enable_sample_size, sample_size_filter,
                   sample_size_slider, publication_types, funding_sources,
                   study_designs, initial_docs, docs_after_pub_type,
                   docs_after_funding, submitted, extraction, retrieval,
                   session_state, calls>>

\* everything of the page but the slots and the coroutines
besides_job == <<session, extraction, retrieval, calls, pc>>

\* process_single_tab from its start to its first suspension: the event
\* loop starts the coroutines in the order of the list.  An exception of
\* the extraction is caught and reported with st.error; st.rerun() raises
\* RerunException, which is no Exception and ends the coroutine.
TaskStart(i) ==
    /\ tasks.job = "gathering"
    /\ tasks.coros[i].pc = "created"
    /\ \A j \in 1..(i - 1) : tasks.coros[j].pc # "created"
    /\ LET config == TabConfigs[i]
           schema == TopicSchemas[config.categories]
       IN  IF ExtractionRaises(df, matching_docs, schema)
           THEN /\ tasks' = [tasks EXCEPT !.coros[i] =
                       [@ EXCEPT !.pc = "done", !.branch = "except",
                                 !.raised = "RerunException"]]
                /\ UNCHANGED session_state
           ELSE IF DOMAIN extract_research_insights_from_docs(
                              df, matching_docs, schema) = {}
           THEN /\ tasks' = [tasks EXCEPT !.coros[i] =
                       [@ EXCEPT !.pc = "done", !.branch = "none found",
                                 !.raised = "RerunException"]]
                /\ session_state' = SaveResults(session_state, config,
                       <<NoInsightsFound(config.topic_name), NoTokens>>)
           ELSE /\ tasks' = [tasks EXCEPT !.coros[i].pc = "awaiting"]
                /\ UNCHANGED session_state
    /\ UNCHANGED besides_job

\* process_single_tab from the end of the external call to its end
TaskResume(i) ==
    /\ tasks.job = "gathering"
    /\ tasks.coros[i].pc = "awaiting"
    /\ LET config == TabConfigs[i]
       IN  /\ session_state' = SaveResults(session_state, config,
                  generate_insights_with_gpt4o(config.topic_name,
                                               tasks.coros[i].api))
           /\ tasks' = [tasks EXCEPT !.coros[i] =
                  [@ EXCEPT !.pc = "done", !.branch = "generated",
                            !.raised = "RerunException"]]
    /\ UNCHANGED besides_job

\* asyncio.run(process_all_tabs_async(matching_docs)) returns
JobReturns ==
    /\ tasks.job = "gathering"
    /\ GatherDone(tasks.coros)
    /\ tasks' = [tasks EXCEPT !.job = "returned"]
    /\ pc' = "idle"
    /\ UNCHANGED <<session, extraction, retrieval, session_state, calls>>

NextBulk ==
    \/ GenerateInsights
    \/ \E i \in 1..Len(TabConfigs) : TaskStart(i) \/ TaskResume(i)
    \/ JobReturns

SpecBulk == InitBulk /\ [][NextBulk]_vars

\* the event loop runs every coroutine that can run, and every external
\* call ends, by its timeout at the latest
SpecBulkLive ==
    /\ SpecBulk
    /\ \A i \in 1..Len(TabConfigs) :
          WF_vars(TaskStart(i)) /\ WF_vars(TaskResume(i))
    /\ WF_vars(JobReturns)

-----------------------------------------------------------------------------
(* load_data and the queries that follow it                                *)

\* pd.DataFrame(): no column, no row
EmptyTable == [header |-> FALSE, docs |-> <<>>, rows |-> <<>>]

\* load_data(): the sheet read, or the empty table after any exception of
\* read_excel
load_data(readable, sheet) == IF readable THEN sheet ELSE EmptyTable

\* the same table with its row names as the extraction reads them
AsPaths(t) ==
    [header |-> t.header,
     docs   |-> t.docs,
     rows   |-> [i \in 1..Len(t.rows) |->
                    [Main |-> "",
                     Category |-> <<t.rows[i].Category>>,
                     SubCategory |-> IF t.rows[i].SubCategory = NoName
                                     THEN <<>>
                                     ELSE <<t.rows[i].SubCategory>>,
                     cell |-> t.rows[i].cell]]]

\* a schema whose paths name rows of the sheet
SheetSchema ==
    << <<"Study Characteristics",
         << <<"publication_type">>, <<"primary_type">> >> >> >>

InitLoad ==
    /\ \E readable \in BOOLEAN : \E sheet \in SessionTables :
          /\ df = load_data(readable, sheet)
          /\ calls = [NoCalls EXCEPT
                         !.read_excel = IF readable THEN "ok" ELSE "failed"]
    /\ publication_type = <<All>>
    /\ funding_source = <<All>>
    /\ study_design = <<All>>
    /\ year_range = YearBounds(df)
    /\ enable_sample_size = FALSE
    /\ sample_size_filter = get_sample_sizes(df).vals
    /\ sample_size_slider = None
    /\ publication_types = <<>>
    /\ funding_sources = <<>>
    /\ study_designs = <<>>
    /\ initial_docs = <<>>
    /\ docs_after_pub_type = <<>>
    /\ docs_after_funding = <<>>
    /\ matching_docs = <<>>
    /\ submitted = NoEvent
    /\ categories_to_extract = SheetSchema
    /\ insights = <<>>
    /\ NoRetrieval
    /\ session_state = <<>>
    /\ tasks = NoJob
    /\ pc = "start"

\* after a query: the option lists of the three pickers over the documents
\* found, and the insights extracted from them
OptionsAndInsights ==
    /\ pc = "query"
    /\ matching_docs # Raised
    /\ publication_types' = get_unique_values_filtered(df, "publication_type",
                                NoName, matching_docs)
    /\ funding_sources' = get_unique_values_filtered(df, NoName, "type",
                              matching_docs)
    /\ study_designs' = get_unique_values_filtered(df, NoName, "primary_type",
                            matching_docs)
    /\ insights' = extract_research_insights_from_docs(AsPaths(df),
                       matching_docs, categories_to_extract)
    /\ pc' = "answered"
    /\ UNCHANGED <<df, year_range, publication_type, funding_source,
                   study_design, enable_sample_size, sample_size_filter,
                   sample_size_slider, initial_docs, docs_after_pub_type,
                   docs_after_funding, matching_docs, submitted,
                   categories_to_extract, retrieval, page>>

NextLoad == Query \/ OptionsAndInsights

SpecLoad == InitLoad /\ [][NextLoad]_vars

-----------------------------------------------------------------------------
(* The session on a sheet in which a stored value is the text "All"        *)

\* a document whose publication type is stored as "All"
ProfileAll ==
    Profile(Num(2021), Text(<<"All">>), Text(<<"Industry">>), NaN,
            Text(<<"Cohort">>), Num(50))

InitSentinel ==
    /\ df = Table([i \in 1..NumDocs |->
                      IF i = 2 THEN ProfileAll
                      ELSE IF i % 2 = 1 THEN ProfileA ELSE ProfileC])
    /\ publication_type = <<All>>
    /\ funding_source = <<All>>
    /\ study_design = <<All>>
    /\ year_range = YearBounds(df)
    /\ enable_sample_size = FALSE
    /\ sample_size_filter = get_sample_sizes(df).vals
    /\ sample_size_slider = None
    /\ publication_types = <<>>
    /\ funding_sources = <<>>
    /\ study_designs = <<>>
    /\ initial_docs = <<>>
    /\ docs_after_pub_type = <<>>
    /\ docs_after_funding = <<>>
    /\ matching_docs = <<>>
    /\ submitted = NoEvent
    /\ NoExtraction
    /\ NoRetrieval
    /\ NoPage
    /\ pc = "start"

SpecSentinel == InitSentinel /\ [][Next]_vars

-----------------------------------------------------------------------------
(* display_insights (insights_utils.py) and its calls by the tabs *)

\* lowered.split(" "): the words of a lowered topic name
Words(lowered) ==
    CASE lowered = "overall" -> <<"overall">>
      [] lowered = "adverse events" -> <<"adverse", "events">>
      [] lowered = "perceived benefits" -> <<"perceived", "benefits">>
      [] lowered = "oral health" -> <<"oral", "health">>
      [] lowered = "respiratory health" -> <<"respiratory", "health">>
      [] lowered = "cardiovascular health" -> <<"cardiovascular", "health">>
      [] lowered = "research trends" -> <<"research", "trends">>
      [] lowered = "contradictions and conflicts" ->
             <<"contradictions", "and", "conflicts">>
      [] lowered = "research bias" -> <<"research", "bias">>
      [] lowered = "publication metrics" -> <<"publication", "metrics">>
      [] OTHER -> <<lowered>>

\* .replace(" & ", "_").replace(" ", "_") of a name without " & ": the
\* words joined by "_"
RECURSIVE Underscored(_)
Underscored(words) ==
    IF Len(words) = 1
    THEN words[1]
    ELSE words[1] \o "_" \o Underscored(Tail(words))

\* st.session_state.get('selected_health_area', 'oral')
SelectedHealthArea(state) ==
    IF Key("selected_health_area") \in DOMAIN state
    THEN state[Key("selected_health_area")]
    ELSE "oral"

\* the insights_key of display_insights: made from topic_name, and for
\* tab_index 3 replaced by the key of the selected health area
DisplayKey(topic_name, tab_index, state) ==
    LET named == Key("generated_" \o Underscored(Words(Lower(topic_name)))
                      \o "_insights")
        health_area == SelectedHealthArea(state)
    IN  IF tab_index = 3
        THEN CASE health_area = "oral" ->
                      Key("generated_oral_health_insights")
               [] health_area = "lung" ->
                      Key("generated_respiratory_health_insights")
               [] health_area = "heart" ->
                      Key("generated_cardiovascular_health_insights")
               [] OTHER -> named
        ELSE named

\* the message of the empty state
ClickGenerate(topic_name) ==
    <<"Click the 'Generate Insights' button to analyze ",
      Lower(topic_name), " findings.">>

\* the calls of display_insights by the tabs: topic_name, tab_index and the
\* selected_health_area under which the call is made ("" for any)
DisplayCalls ==
    << [topic_name |-> "Overall", tab_index |-> 0, area |-> ""],
       [topic_name |-> "Adverse Events", tab_index |-> 2, area |-> ""],
       [topic_name |-> "Perceived Benefits", tab_index |-> 3, area |-> ""],
       [topic_name |-> "Oral Health", tab_index |-> 4, area |-> "oral"],
       [topic_name |-> "Respiratory Health", tab_index |-> 4,
        area |-> "lung"],
       [topic_name |-> "Cardiovascular Health", tab_index |-> 4,
        area |-> "heart"],
       [topic_name |-> "Research Trends", tab_index |-> 5, area |-> ""],
       [topic_name |-> "Contradictions and Conflicts", tab_index |-> 6,
        area |-> ""],
       [topic_name |-> "Research Bias", tab_index |-> 7, area |-> ""],
       [topic_name |-> "Publication Metrics", tab_index |-> 8,
        area |-> ""] >>

HealthAreas == {"oral", "lung", "heart"}

\* select_oral_health, select_respiratory_health and
\* select_cardiovascular_health: the buttons of the health tab
SelectHealthArea(area) ==
    /\ pc = "idle"
    /\ matching_docs # <<>>
    /\ session_state' = Put(session_state, Key("selected_health_area"), area)
    /\ UNCHANGED <<session, extraction, retrieval, tasks, calls, pc>>

\* one call of display_insights during a rerun with matching documents;
\* the health tab sets selected_health_area to "oral" first if it is unset
DisplayInsights(call) ==
    /\ pc = "idle"
    /\ matching_docs # <<>>
    /\ LET state == IF call.tab_index = 4
                    THEN Put(session_state, Key("selected_health_area"),
                             SelectedHealthArea(session_state))
                    ELSE session_state
           insights_key == DisplayKey(call.topic_name, call.tab_index,
                                      state)
       IN  /\ call.area # "" => SelectedHealthArea(state) = call.area
           /\ session_state' = state
           /\ calls' = [calls EXCEPT !.markdown =
                  [topic_name |-> call.topic_name,
                   tab_index |-> call.tab_index,
                   insights_key |-> insights_key,
                   shown |-> IF insights_key \in DOMAIN state
                             THEN state[insights_key]
                             ELSE ClickGenerate(call.topic_name)]]
    /\ UNCHANGED <<session, extraction, retrieval, tasks, pc>>

NextDisplay ==
    \/ GenerateInsights
    \/ \E i \in 1..Len(TabConfigs) : TaskStart(i) \/ TaskResume(i)
    \/ JobReturns
    \/ \E area \in HealthAreas : SelectHealthArea(area)
    \/ \E i \in 1..Len(DisplayCalls) : DisplayInsights(DisplayCalls[i])

SpecDisplay == InitBulk /\ [][NextDisplay]_vars

-----------------------------------------------------------------------------
(* The Q&A tab: one run of the script from a widget event to its end *)

\* script runs of one session
MaxReruns == 6

\* a text or a recording that is not None and not empty
NonEmpty(text) == text # None /\ text # <<"">>

\* text.strip(): leading and trailing blanks dropped
RECURSIVE Strip(_)
Strip(text) ==
    IF text = <<>> THEN <<"">>
    ELSE IF Head(text) \in {"", " "} THEN Strip(Tail(text))
    ELSE IF text[Len(text)] \in {"", " "}
         THEN Strip(SubSeq(text, 1, Len(text) - 1))
    ELSE text

Has(state, name) == Key(name) \in DOMAIN state

Get(state, name) == state[Key(name)]

\* st.session_state.name = value
Set(state, name, value) == Put(state, Key(name), value)

\* if name not in st.session_state: st.session_state.name = value
SetDefault(state, name, value) ==
    IF Has(state, name) THEN state ELSE Set(state, name, value)

\* del st.session_state[name]
Del(state, name) ==
    [k \in DOMAIN state \ {Key(name)} |-> state[k]]

\* the recordings of the audio recorder, in the order they are made
AudioClips == << <<"clip a">>, <<"clip b">> >>

\* the recording that follows the one the recorder holds
NextClips(audio_bytes) ==
    IF audio_bytes = None
    THEN {AudioClips[1]}
    ELSE {AudioClips[j] : j \in {k \in 2..Len(AudioClips) :
                                    AudioClips[k - 1] = audio_bytes}}

\* what the user types into the question input
TypedTexts == {<<" ">>, <<" ", "typed question", " ">>}

ExampleQuestion == <<"example question">>

ApiKeys == {<<"sk-custom">>}

\* what transcribe_audio makes of a recording: transcript.text
Transcript(audio_bytes) == <<"transcript of ", audio_bytes[1]>>

\* the frontend and the environment of a session before the first run: a
\* widget is named by its key and keeps its value while the key stays
NoWidgets(default_api_key) ==
    [default_api_key |-> default_api_key,
     api_key_input   |-> <<"">>,
     example         |-> [key |-> -1, value |-> None],
     question        |-> [key |-> -1, value |-> <<"">>],
     audio_bytes     |-> None,
     button          |-> "none"]

\* the user's act that starts a run, applied to the widgets
Widgets(widgets, event) ==
    CASE event.kind = "api_key" ->
             [widgets EXCEPT !.api_key_input = event.value,
                             !.button = "none"]
      [] event.kind = "type" ->
             [widgets EXCEPT !.question.value = event.value,
                             !.button = "none"]
      [] event.kind = "example" ->
             [widgets EXCEPT !.example.value = event.value,
                             !.button = "none"]
      [] event.kind = "record" ->
             [widgets EXCEPT !.audio_bytes = event.value,
                             !.button = "none"]
      [] event.kind \in {"submit", "clear"} ->
             [widgets EXCEPT !.button = event.kind]
      [] OTHER -> [widgets EXCEPT !.button = "none"]

\* the session keys set before the sidebar, and openai_api_key as the
\* sidebar sets it in every run
SidebarKeys(state, widgets) ==
    LET s1 == SetDefault(state, "transcribed_text", <<"">>)
        s2 == SetDefault(s1, "last_transcription", None)
        s3 == SetDefault(s2, "audio_processed", FALSE)
        s4 == SetDefault(s3, "last_audio_bytes", None)
    IN  Set(s4, "openai_api_key",
            IF NonEmpty(widgets.default_api_key)
            THEN widgets.default_api_key
            ELSE widgets.api_key_input)

\* api_key_available = bool(st.session_state.get('openai_api_key'))
ApiKeyAvailable(state) ==
    Has(state, "openai_api_key") /\ NonEmpty(Get(state, "openai_api_key"))

\* "rag_system" not in st.session_state or
\* not getattr(st.session_state.rag_system, 'is_initialized', False) == False
\* where "not a == b" is "not (a == b)"
InitializationDue(state) ==
    \/ ~Has(state, "rag_system")
    \/ ~(Get(state, "rag_system").is_initialized = FALSE)

\* what the initialisation block stores: the RAGSystem of
\* initialize_rag_system, or the empty stand-in after an exception
StoredRagSystem(found) ==
    IF found = "raised"
    THEN [is_initialized |-> FALSE]
    ELSE [is_initialized |-> initialize_rag_system(found = "loaded", 1)
                                 .is_initialized]

\* the keys of the question input and the selected example
QuestionKeys(state, widgets) ==
    LET s1 == SetDefault(state, "current_question", <<"">>)
        s2 == SetDefault(s1, "input_key_counter", 0)
        selected_example ==
            IF widgets.example.key = Get(s2, "input_key_counter")
            THEN widgets.example.value
            ELSE None
        s3 == IF /\ NonEmpty(selected_example)
                 /\ selected_example # Get(s2, "current_question")
              THEN Set(Set(s2, "current_question", selected_example),
                       "input_key_counter",
                       Get(s2, "input_key_counter") + 1)
              ELSE s2
    IN  SetDefault(s3, "chat_history", <<>>)

\* current_question follows a new transcription
TranscriptionToQuestion(state) ==
    IF /\ NonEmpty(Get(state, "transcribed_text"))
       /\ Get(state, "transcribed_text") # Get(state, "last_transcription")
    THEN Set(Set(Set(state, "current_question",
                     Get(state, "transcribed_text")),
                 "last_transcription", Get(state, "transcribed_text")),
             "input_key_counter", Get(state, "input_key_counter") + 1)
    ELSE state

\* user_question: the value of the text input of this run, a widget with
\* the key of the counter that starts with current_question
UserQuestion(state, widgets) ==
    IF widgets.question.key = Get(state, "input_key_counter")
    THEN widgets.question.value
    ELSE Get(state, "current_question")

\* the recording is handed to transcribe_audio
TranscriptionDue(state, audio_bytes) ==
    /\ NonEmpty(audio_bytes)
    /\ ApiKeyAvailable(state)
    /\ audio_bytes # Get(state, "last_audio_bytes")
    /\ ~Get(state, "audio_processed")

\* the keys set after a transcription that gave a text
Transcribed(state, audio_bytes, transcribed_text) ==
    Set(Set(Set(Set(state, "transcribed_text", transcribed_text),
                "current_question", transcribed_text),
            "last_audio_bytes", audio_bytes),
        "audio_processed", TRUE)

\* the keys cleared after a question, by each of the three branches
QuestionCleared(state) ==
    Set(Set(Set(Set(Set(state, "audio_processed", FALSE),
                    "last_audio_bytes", None),
                "current_question", <<"">>),
            "transcribed_text", <<"">>),
        "input_key_counter", Get(state, "input_key_counter") + 1)

NotInitializedMessage ==
    <<"RAG system is not properly initialized. ",
      "Please check your setup and try again.">>

ApologyMessage(e) ==
    <<"I apologize, but I encountered an error while processing your ",
      "question: ", e, ". Please try again.">>

\* a variant that leaves a question whose processing raised unanswered
UnlessRaised(history, question, initialized, outcome) ==
    LET asked == Append(history, [role |-> "user", content |-> question])
    IN  IF ~initialized
        THEN Append(asked, [role |-> "assistant",
                            content |-> NotInitializedMessage,
                            sources |-> <<>>])
        ELSE IF outcome = "answer"
        THEN Append(asked, [role |-> "assistant",
                            content |-> <<"answer to ">> \o question,
                            sources |-> <<"relevant_docs">>])
        ELSE asked

\* chat_history after a processed Submit: the question, then the answer,
\* the notice that the system is not initialised, or the apology
Asked(history, question, initialized, outcome) ==
    LET asked == Append(history, [role |-> "user", content |-> question])
    IN  IF ~initialized
        THEN Append(asked, [role |-> "assistant",
                            content |-> NotInitializedMessage,
                            sources |-> <<>>])
        ELSE IF outcome = "answer"
        THEN Append(asked, [role |-> "assistant",
                            content |-> <<"answer to ">> \o question,
                            sources |-> <<"relevant_docs">>])
        ELSE Append(asked, [role |-> "assistant",
                            content |-> ApologyMessage(outcome),
                            sources |-> <<>>])

\* the handler of "Submit Question"
SubmitQuestion(state, user_question, outcome) ==
    LET question_to_use ==
            IF NonEmpty(Strip(user_question))
            THEN Strip(user_question)
            ELSE Strip(Get(state, "current_question"))
        initialized == /\ Has(state, "rag_system")
                       /\ Get(state, "rag_system").is_initialized
        s1 == Set(state, "chat_history",
                  Asked(Get(state, "chat_history"), question_to_use,
                        initialized, outcome))
        s2 == IF initialized /\ outcome = "answer"
              THEN Set(s1, "relevant_docs", <<"relevant_docs">>)
              ELSE s1
    IN  QuestionCleared(s2)

\* the handler of "Clear Chat"
ClearChat(state) ==
    LET s1 == Set(state, "chat_history", <<>>)
        s2 == Set(Set(s1, "current_question", <<"">>),
                  "transcribed_text", <<"">>)
        s3 == Set(Set(s2, "audio_processed", FALSE),
                  "last_audio_bytes", None)
        s4 == Set(s3, "input_key_counter",
                  Get(s3, "input_key_counter") + 1)
    IN  IF Has(s4, "relevant_docs") THEN Del(s4, "relevant_docs") ELSE s4

\* One run of the script over the Q&A tab.  found, transcribed_text and
\* outcome are what initialize_rag_system, transcribe_audio and the search
\* with its answer do if the run calls them.  The result names the keys,
\* the widgets, the calls made, and how the run ended: "shown" at the end
\* of the script, else in the st.rerun() of a transcription, of a question
\* or of "Clear Chat".
Script(state, widgets, made, found, transcribed_text, outcome) ==
    LET s1 == SidebarKeys(state, widgets)
        loads == ApiKeyAvailable(s1) /\ InitializationDue(s1)
        s2 == IF loads THEN Set(s1, "rag_system", StoredRagSystem(found))
              ELSE s1
        s3 == TranscriptionToQuestion(QuestionKeys(s2, widgets))
        counter == Get(s3, "input_key_counter")
        user_question == UserQuestion(s3, widgets)
        w1 == [widgets EXCEPT
                  !.example = IF @.key = counter THEN @
                              ELSE [key |-> counter, value |-> None],
                  !.question = [key |-> counter, value |-> user_question]]
        transcribes == TranscriptionDue(s3, widgets.audio_bytes)
        made1 == [made EXCEPT
                     !.script_runs = @ + 1,
                     !.initialize_rag_system = IF loads THEN @ + 1 ELSE @,
                     !.transcribe_audio =
                         IF transcribes
                         THEN Append(@, [audio_bytes |-> widgets.audio_bytes,
                                         text |-> transcribed_text])
                         ELSE @]
        submits == /\ widgets.button = "submit"
                   /\ \/ NonEmpty(Strip(user_question))
                      \/ NonEmpty(Strip(Get(s3, "current_question")))
    IN  IF transcribes /\ NonEmpty(transcribed_text)
        THEN [state |-> Transcribed(s3, widgets.audio_bytes,
                                    transcribed_text),
              widgets |-> w1, calls |-> made1, ends |-> "transcribed"]
        ELSE IF submits
        THEN [state |-> SubmitQuestion(s3, user_question, outcome),
              widgets |-> w1, calls |-> made1, ends |-> "asked"]
        ELSE IF widgets.button = "clear"
        THEN [state |-> ClearChat(s3), widgets |-> w1, calls |-> made1,
              ends |-> "cleared"]
        ELSE [state |-> s3, widgets |-> w1, calls |-> made1,
              ends |-> "shown"]

\* the acts open to the user: the inputs of the tab are disabled without
\* an API key
UserEvents ==
    LET enabled == ApiKeyAvailable(session_state)
    IN  {[kind |-> "api_key", value |-> k] : k \in ApiKeys}
        \cup {[kind |-> "submit", value |-> None],
              [kind |-> "clear", value |-> None],
              [kind |-> "rerun", value |-> None]}
        \cup {[kind |-> "record", value |-> b] :
                 b \in NextClips(submitted.audio_bytes)}
        \cup IF enabled
             THEN {[kind |-> "type", value |-> t] : t \in TypedTexts}
                  \cup {[kind |-> "example", value |-> ExampleQuestion]}
             ELSE {}

InitChat ==
    /\ df = Table([i \in 1..NumDocs |-> ProfileA])
    /\ categories_to_extract = <<>>
    /\ insights = <<>>
    /\ publication_type = <<All>>
    /\ funding_source = <<All>>
    /\ study_design = <<All>>
    /\ year_range = <<2011, 2025>>
    /\ enable_sample_size = FALSE
    /\ sample_size_filter = DefaultSizes.vals
    /\ sample_size_slider = None
    /\ publication_types = <<>>
    /\ funding_sources = <<>>
    /\ study_designs = <<>>
    /\ initial_docs = <<>>
    /\ docs_after_pub_type = <<>>
    /\ docs_after_funding = <<>>
    /\ matching_docs = <<>>
    /\ submitted \in {NoWidgets(k) : k \in {<<"">>, <<"sk-default">>}}
    /\ NoRetrieval
    /\ session_state = <<>>
    /\ tasks = NoJob
    /\ calls = NoCalls
    /\ pc = "launch"

\* what a run leaves behind
RunScript(widgets, found, transcribed_text, outcome) ==
    LET run == Script(session_state, widgets, calls, found,
                      transcribed_text, outcome)
    IN  /\ calls.script_runs < MaxReruns
        /\ session_state' = run.state
        /\ submitted' = run.widgets
        /\ calls' = run.calls
        /\ pc' = run.ends
        /\ UNCHANGED <<df, year_range, publication_type, funding_source,
                       study_design, enable_sample_size, sample_size_filter,
                       sample_size_slider, derived, extraction, retrieval,
                       tasks>>

\* what the collaborators of a run can do: initialize_rag_system if the
\* run calls it, transcribe_audio if the run calls it, and the search with
\* its answer if "Submit Question" is pressed
Founds(state, widgets) ==
    LET s1 == SidebarKeys(state, widgets)
    IN  IF ApiKeyAvailable(s1) /\ InitializationDue(s1)
        THEN {"loaded", "missing", "raised"}
        ELSE {"not called"}

Heard(state, widgets) ==
    IF TranscriptionDue(SidebarKeys(state, widgets), widgets.audio_bytes)
    THEN {None, Transcript(widgets.audio_bytes)}
    ELSE {None}

Answers(widgets) ==
    IF widgets.button = "submit"
    THEN {"answer", "RuntimeError"}
    ELSE {"not called"}

\* the first run of a session, and the run that st.rerun() starts: no
\* widget has changed and no button is pressed
ScriptRerun ==
    /\ pc \in {"launch", "transcribed", "asked", "cleared"}
    /\ LET widgets == Widgets(submitted, [kind |-> "rerun", value |-> None])
       IN  \E found \in Founds(session_state, widgets) :
           \E text \in Heard(session_state, widgets) :
              RunScript(widgets, found, text, "not called")

\* a run started by an act of the user
UserEvent ==
    /\ pc = "shown"
    /\ \E event \in UserEvents :
          LET widgets == Widgets(submitted, event)
          IN  \E found \in Founds(session_state, widgets) :
              \E text \in Heard(session_state, widgets) :
              \E outcome \in Answers(widgets) :
                 RunScript(widgets, found, text, outcome)

NextChat == ScriptRerun \/ UserEvent

SpecChat == InitChat /\ [][NextChat]_vars

-----------------------------------------------------------------------------
(* The facet predicates as the specification states them *)

YearCell(doc) == FirstCell(RowsByCategory(df, "publication_year"), doc)
SizeCell(doc) == FirstCell(RowsBySubCategory(df, "total_size"), doc)
PublicationCell(doc) == FirstCell(RowsByCategory(df, "publication_type"), doc)
FundingCell(doc) == FirstCell(RowsBySubCategory(df, "type"), doc)
DesignCell(doc) == FirstCell(RowsBySubCategory(df, "primary_type"), doc)

\* the range handed to count_matching_documents for the sample size
CurrentSizeRange == IF enable_sample_size THEN sample_size_filter ELSE None

\* the value parses as a number n with low <= n <= high
ParsesInRange(cell, range) ==
    /\ IntFloat(cell).ok
    /\ range[1] <= IntFloat(cell).n
    /\ IntFloat(cell).n <= range[2]

\* the value an option "value {count}" offers
ValuePart(opt) == SubSeq(opt, 1, Len(opt) - 1)

\* the selection is {All}, or the stored value is one of the selected values
CategoricalHolds(cell, selection) ==
    \/ selection = <<All>>
    \/ /\ cell # NaN
       /\ \E i \in 1..Len(selection) :
             selection[i] # All /\ PyStr(cell) = ValuePart(selection[i])

Unrestricted == <<All>>

-----------------------------------------------------------------------------
(* Claims on count_matching_documents, under SpecFilter *)

\* C1: count_matching_documents returns exactly the documents for which
\* every enabled facet predicate holds (AND across the facets, OR within a
\* categorical facet's selected values).
C1_ConjunctionOfFacetPredicates ==
    (pc = "query" /\ matching_docs # Raised) =>
        Range(matching_docs) =
            {d \in Range(DocColumns(df)) :
                /\ ParsesInRange(YearCell(d), year_range)
                /\ enable_sample_size => ParsesInRange(SizeCell(d), sample_size_filter)
                /\ CategoricalHolds(PublicationCell(d), publication_type)
                /\ CategoricalHolds(FundingCell(d), funding_source)
                /\ CategoricalHolds(DesignCell(d), study_design)}

\* C2: with the categorical facets unrestricted, a document is in the
\* result if and only if its year parses and lies in the year range and,
\* when the sample-size facet is enabled, its sample size parses and lies in
\* the sample-size range; a missing or zero value does not match.
C2_RangeFacetIffParsesInRange ==
    (/\ pc = "query"
     /\ matching_docs # Raised
     /\ publication_type = Unrestricted
     /\ funding_source = Unrestricted
     /\ study_design = Unrestricted) =>
        \A d \in Range(DocColumns(df)) :
            d \in Range(matching_docs) <=>
                /\ ParsesInRange(YearCell(d), year_range)
                /\ enable_sample_size => ParsesInRange(SizeCell(d), sample_size_filter)

\* C3: among the documents that pass the year facet, with the sample-size
\* facet disabled and the other categorical facets unrestricted, a document
\* passes a categorical facet if and only if the selection is {All} or its
\* stored value is one of the selected values; a document with no stored
\* value does not pass a selection other than {All}.
C3_CategoricalFacetIffSelected ==
    (pc = "query" /\ matching_docs # Raised /\ ~enable_sample_size) =>
        \A d \in Range(count_matching_documents(df, year_range, None,
                          Unrestricted, Unrestricted, Unrestricted)) :
            /\ (funding_source = Unrestricted /\ study_design = Unrestricted) =>
                  (d \in Range(matching_docs) <=>
                      CategoricalHolds(PublicationCell(d), publication_type))
            /\ (publication_type = Unrestricted /\ study_design = Unrestricted) =>
                  (d \in Range(matching_docs) <=>
                      CategoricalHolds(FundingCell(d), funding_source))
            /\ (publication_type = Unrestricted /\ funding_source = Unrestricted) =>
                  (d \in Range(matching_docs) <=>
                      CategoricalHolds(DesignCell(d), study_design))

\* C4: when no facet restricts anything (sample-size facet disabled, every
\* categorical selection {All}, year range from the minimum to the maximum
\* observed year), the result is every document column of the table.
C4_UnrestrictedReturnsEveryDocument ==
    (/\ pc = "query"
     /\ matching_docs # Raised
     /\ ~enable_sample_size
     /\ publication_type = Unrestricted
     /\ funding_source = Unrestricted
     /\ study_design = Unrestricted
     /\ year_range = YearBounds(df)) =>
        matching_docs = DocColumns(df)

RangeWithin(inner, outer) == outer[1] <= inner[1] /\ inner[2] <= outer[2]

\* facet by facet, the second constraint keeps the first and tightens it
SizeTightens(tight, loose) ==
    loose = None \/ (tight # None /\ RangeWithin(tight, loose))

SelectionTightens(tight, loose) ==
    loose = <<All>> \/ (tight # <<All>> /\ Range(tight) \subseteq Range(loose))

\* the facet sets F1 that the facet set of the state tightens, with the
\* result of count_matching_documents for each
LooserResults ==
    {count_matching_documents(df, f[1], f[2], f[3], f[4], f[5]) :
        f \in {g \in QueryYearRanges(df) \X QuerySizeRanges
                     \X QuerySelections(df, "publication_type", NoName)
                     \X QuerySelections(df, NoName, "type")
                     \X QuerySelections(df, NoName, "primary_type") :
                 /\ RangeWithin(year_range, g[1])
                 /\ SizeTightens(CurrentSizeRange, g[2])
                 /\ SelectionTightens(publication_type, g[3])
                 /\ SelectionTightens(funding_source, g[4])
                 /\ SelectionTightens(study_design, g[5])}}

DropColumn(t, doc) ==
    [t EXCEPT !.docs = SelectSeq(t.docs, LAMBDA d : d # doc)]

\* C6: a year or (enabled) sample-size value that cannot be parsed as a
\* number does not make count_matching_documents raise; the document is
\* not in the result, and the result for the other documents is the one
\* they get without it.
C6_UnparsableValueExcludesTheDocumentOnly ==
    pc = "query" =>
        /\ matching_docs # Raised
        /\ \A d \in Range(DocColumns(df)) :
              (\/ ~IntFloat(YearCell(d)).ok
               \/ enable_sample_size /\ ~IntFloat(SizeCell(d)).ok) =>
                  /\ d \notin Range(matching_docs)
                  /\ matching_docs =
                        count_matching_documents(DropColumn(df, d), year_range,
                            CurrentSizeRange, publication_type, funding_source,
                            study_design)

-----------------------------------------------------------------------------
(* Claims on the pickers and the script run, under Spec *)

CategoricalFacets == {"publication_type", "funding_source", "study_design"}

\* the stored selection of a categorical facet
Stored(facet) ==
    CASE facet = "publication_type" -> publication_type
      [] facet = "funding_source"   -> funding_source
      [] facet = "study_design"     -> study_design

\* the option list the last script run computed for a categorical facet
Options(facet) ==
    CASE facet = "publication_type" -> publication_types
      [] facet = "funding_source"   -> funding_sources
      [] facet = "study_design"     -> study_designs

\* the documents the option list of a categorical facet was counted over
Candidates(facet) ==
    CASE facet = "publication_type" -> initial_docs
      [] facet = "funding_source"   -> docs_after_pub_type
      [] facet = "study_design"     -> docs_after_funding

\* a picker has just submitted All together with at least one other value
SubmittedAllWithOthers ==
    /\ pc = "callback"
    /\ submitted.kind \in CategoricalFacets
    /\ All \in Range(submitted.selection)
    /\ Len(submitted.selection) > 1

BaseValues(selection) ==
    [i \in 1..Len(selection) |-> BaseValue(selection[i])]

\* the stored selection a script run started from
Before(facet) ==
    CASE facet = "publication_type" -> submitted.before[1]
      [] facet = "funding_source"   -> submitted.before[2]
      [] facet = "study_design"     -> submitted.before[3]

\* the selected values of the selection a script run started from whose
\* base value is among the fresh options
StillOffered(facet) ==
    SelectSeq(Before(facet),
        LAMBDA val : BaseValue(val) \in Range(BaseValues(Options(facet))))

C9_OptionsFromEarlierFacetsOnly ==
    pc = "idle" =>
        /\ initial_docs = count_matching_documents(df, year_range, None,
                              <<All>>, <<All>>, <<All>>)
        /\ publication_types = get_unique_values_filtered(df,
                                   "publication_type", NoName, initial_docs)
        /\ Range(publication_type) \subseteq Range(publication_types)
        /\ docs_after_pub_type = count_matching_documents(df, year_range, None,
                                     publication_type, <<All>>, <<All>>)
        /\ funding_sources = get_unique_values_filtered(df, NoName, "type",
                                 docs_after_pub_type)
        /\ Range(funding_source) \subseteq Range(funding_sources)
        /\ docs_after_funding = count_matching_documents(df, year_range, None,
                                    publication_type, funding_source, <<All>>)
        /\ study_designs = get_unique_values_filtered(df, NoName,
                               "primary_type", docs_after_funding)
        /\ Range(study_design) \subseteq Range(study_designs)
        /\ matching_docs = count_matching_documents(df, year_range,
                               CurrentSizeRange, publication_type,
                               funding_source, study_design)

\* a script run in which the year range and the publication type each
\* narrowed the documents, and the funding-source options differ from those
\* of the year range alone
C9_Witness ==
    /\ pc = "idle"
    /\ publication_type # <<All>>
    /\ funding_source # <<All>>
    /\ docs_after_funding # <<>>
    /\ Len(docs_after_pub_type) < Len(initial_docs)
    /\ Len(initial_docs) < Len(DocColumns(df))
    /\ funding_sources # get_unique_values_filtered(df, NoName, "type",
                              initial_docs)

\* the count an option "value {count}" shows
OptionCount(opt) ==
    CHOOSE n \in 0..(Len(df.rows) * Len(df.docs)) :
        opt[Len(opt)] = ToString(n) \o "}"

\* the documents of a facet's candidate set that remain when the option is
\* the only selected value of the facet
KeptBySelectingAlone(facet, opt) ==
    LET pt == IF facet = "publication_type" THEN <<opt>> ELSE <<All>>
        fs == IF facet = "funding_source" THEN <<opt>> ELSE <<All>>
        sd == IF facet = "study_design" THEN <<opt>> ELSE <<All>>
    IN  Range(Candidates(facet)) \cap
            Range(count_matching_documents(df, year_range, None, pt, fs, sd))

\* C10: for every option (value, count) other than All that
\* get_unique_values_filtered offers for a categorical facet over a
\* candidate document set, selecting that value alone keeps exactly count
\* documents of the candidate set, also when several rows share the
\* SubCategory.
C10_OptionCountIsNumberOfDocumentsKept ==
    pc = "idle" =>
        \A facet \in CategoricalFacets :
            \A i \in 2..Len(Options(facet)) :
                Cardinality(KeptBySelectingAlone(facet, Options(facet)[i])) =
                    OptionCount(Options(facet)[i])

-----------------------------------------------------------------------------
(* Claims on the option lists, under Spec *)

\* the rows get_unique_values_filtered reads for a categorical facet
FacetRows(facet) ==
    CASE facet = "publication_type" -> RowsByCategory(df, "publication_type")
      [] facet = "funding_source"   -> RowsBySubCategory(df, "type")
      [] facet = "study_design"     -> RowsBySubCategory(df, "primary_type")

\* the distinct non-missing values the candidate documents store in rows
StoredValues(rows, docs) ==
    {PyStr(rows[i].cell[d]) :
        <<i, d>> \in {x \in (1..Len(rows)) \X Range(docs) :
                         rows[x[1]].cell[x[2]] # NaN}}

\* C11: the option list of get_unique_values_filtered has All as its first
\* element (also for an empty candidate set and for an attribute the table
\* does not have), followed by one entry per distinct non-missing stored
\* value among the candidate documents, in non-increasing order of count,
\* each entry's value being the raw stored string.
C11_OptionListShape ==
    pc = "idle" =>
        \A facet \in CategoricalFacets :
            LET opts == Options(facet)
                cand == Candidates(facet)
            IN  /\ opts # <<>> /\ opts[1] = All
                /\ {ValuePart(opts[i]) : i \in 2..Len(opts)} =
                       StoredValues(FacetRows(facet), cand)
                /\ Len(opts) - 1 =
                       Cardinality(StoredValues(FacetRows(facet), cand))
                /\ \A i \in 2..(Len(opts) - 1) :
                       OptionCount(opts[i]) >= OptionCount(opts[i + 1])
                /\ get_unique_values_filtered(df, "intervention_type", NoName,
                                              cand) = <<All>>
                /\ get_unique_values_filtered(df, NoName, "dropout_rate",
                                              cand) = <<All>>

\* an option list in which a value met later has the larger count
C11_Witness ==
    /\ pc = "idle"
    /\ initial_docs # <<>>
    /\ docs_after_funding # <<>>
    /\ Len(study_designs) >= 3
    /\ OptionCount(study_designs[2]) > OptionCount(study_designs[3])
    /\ ValuePart(study_designs[2]) # PyStr(DesignCell(docs_after_funding[1]))

-----------------------------------------------------------------------------
(* Claim on the sample-size slider, under SpecSize *)

\* the documents the facets other than the sample size let through
PassOtherFacets ==
    count_matching_documents(df, year_range, None, publication_type,
                             funding_source, study_design)

\* C12: the upper end of the sample-size slider never exceeds the ceiling
\* 10000; whenever the sample-size filter is enabled with the slider's high
\* end at the ceiling, the filter count_matching_documents applies has the
\* actual maximum observed sample size as its upper bound, and no document
\* with a parsable sample size at or above the selected low end is excluded;
\* this holds from the first script run after the filter is enabled.
C12_CeilingStandsForActualMaximum ==
    /\ sample_size_slider # None => sample_size_slider[2] <= Ceiling
    /\ (pc = "idle" /\ enable_sample_size) =>
          /\ sample_size_slider # None
          /\ sample_size_slider[2] = Ceiling =>
                /\ sample_size_filter =
                      <<sample_size_slider[1], get_sample_sizes(df).vals[3]>>
                /\ \A d \in Range(PassOtherFacets) :
                      (/\ IntFloat(SizeCell(d)).ok
                       /\ IntFloat(SizeCell(d)).n >= sample_size_slider[1]) =>
                          d \in Range(matching_docs)

\* the first script run after the filter was enabled, the slider at the
\* ceiling and a document above the ceiling in the result
C12_Witness ==
    /\ pc = "idle"
    /\ enable_sample_size
    /\ sample_size_slider # None
    /\ sample_size_slider[2] = Ceiling
    /\ \E d \in Range(matching_docs) :
          IntFloat(SizeCell(d)).ok /\ IntFloat(SizeCell(d)).n > Ceiling

-----------------------------------------------------------------------------
(* Claims on extract_research_insights_from_docs, under SpecExtract *)

\* the name holds the path as a run of consecutive pieces
HasSubstring(name, path) ==
    \E i \in 1..(Len(name) - Len(path) + 1) :
        SubSeq(name, i, i + Len(path) - 1) = path

\* the rows of the first of the four tiers that matches a row
FirstMatchingTier(path) ==
    LET tier1 == SelectSeq(df.rows, LAMBDA r : r.Category = path)
        tier2 == SelectSeq(df.rows, LAMBDA r : HasSubstring(r.Category, path))
        tier3 == SelectSeq(df.rows, LAMBDA r : r.SubCategory = path)
        tier4 == SelectSeq(df.rows,
                     LAMBDA r : HasSubstring(r.SubCategory, path))
    IN  IF tier1 # <<>> THEN tier1
        ELSE IF tier2 # <<>> THEN tier2
        ELSE IF tier3 # <<>> THEN tier3
        ELSE tier4

\* the (topic, path) pairs of the schema
SchemaPaths ==
    {<<categories_to_extract[i][1], categories_to_extract[i][2][j]>> :
        <<i, j>> \in {x \in (1..Len(categories_to_extract)) \X (1..2) :
                         x[2] <= Len(categories_to_extract[x[1]][2])}}

\* the output has a list for the document under the topic and path
Present(doc, topic, path) ==
    /\ DocIdentifier(df, doc) \in DOMAIN insights
    /\ topic \in DOMAIN insights[DocIdentifier(df, doc)]
    /\ path \in DOMAIN insights[DocIdentifier(df, doc)][topic]

ListOf(doc, topic, path) == insights[DocIdentifier(df, doc)][topic][path]

\* the non-missing values a document has in rows
ValuesIn(rows, doc) ==
    SelectSeq([i \in 1..Len(rows) |-> rows[i].cell[doc]], LAMBDA c : c # NaN)

\* C13: a path is resolved by four tiers in this order, each tried only when
\* the earlier ones matched no row: Category equals the path, Category
\* contains the path as a substring, SubCategory equals the path,
\* SubCategory contains the path as a substring; the values of a path come
\* from all the rows of the first tier that matches, and a path no tier
\* matches is skipped.
C13_FourTierResolution ==
    pc = "extracted" =>
        \A doc \in Range(matching_docs) : \A tp \in SchemaPaths :
            /\ FirstMatchingTier(tp[2]) = <<>> => ~Present(doc, tp[1], tp[2])
            /\ Present(doc, tp[1], tp[2]) =>
                  ListOf(doc, tp[1], tp[2]) =
                      ValuesIn(FirstMatchingTier(tp[2]), doc)

\* C14: the structure returned contains no empty branch: no path maps to
\* an empty list, no topic to an empty map, no document to an empty map.
C14_NoEmptyBranch ==
    pc = "extracted" =>
        \A id \in DOMAIN insights :
            /\ DOMAIN insights[id] # {}
            /\ \A topic \in DOMAIN insights[id] :
                  /\ DOMAIN insights[id][topic] # {}
                  /\ \A path \in DOMAIN insights[id][topic] :
                        insights[id][topic][path] # <<>>

\* an extraction that left out a document, and a topic of another document
C14_Witness ==
    /\ pc = "extracted"
    /\ \E doc \in Range(matching_docs) :
          DocIdentifier(df, doc) \notin DOMAIN insights
    /\ \E id \in DOMAIN insights :
          Cardinality(DOMAIN insights[id]) < Len(categories_to_extract)
    /\ \E id \in DOMAIN insights : \E topic \in DOMAIN insights[id] :
          Cardinality(DOMAIN insights[id][topic]) = 1
          /\ Len(categories_to_extract[1][2]) = 2

\* C15: every value in every list of the structure returned is not missing
\* and not empty after trimming; of a blank and a non-blank value of the
\* same path only the non-blank one is in the list.
C15_NoBlankValueInAnyList ==
    pc = "extracted" =>
        \A id \in DOMAIN insights : \A topic \in DOMAIN insights[id] :
            \A path \in DOMAIN insights[id][topic] :
                \A i \in 1..Len(insights[id][topic][path]) :
                    /\ insights[id][topic][path][i] # NaN
                    /\ ~Blank(insights[id][topic][path][i])

\* every value the document has for every path of the schema is missing
\* or blank
NothingToReport(doc) ==
    \A tp \in SchemaPaths :
        \A i \in 1..Len(FirstMatchingTier(tp[2])) :
            LET c == FirstMatchingTier(tp[2])[i].cell[doc]
            IN  c = NaN \/ Blank(c)

\* C16: a document whose values for every path of the schema are missing or
\* blank has no entry in the output.
C16_DocumentWithoutValuesHasNoEntry ==
    pc = "extracted" =>
        \A doc \in Range(matching_docs) :
            NothingToReport(doc) => DocIdentifier(df, doc) \notin DOMAIN insights

\* the position in page_metadata of the page a result names
PagePosition(result) ==
    CHOOSE p \in 1..Len(rag_system.page_metadata) :
        /\ rag_system.page_metadata[p].pdf_name = result.pdf_name
        /\ rag_system.page_metadata[p].page_number = result.page_number

\* the call went through: the index was loaded, the embedding and the
\* search of the index did not fail
Answered ==
    /\ pc = "searched"
    /\ search_call.condition \in {"ok", "index_error"}

\* C17: with top_k larger than the number of passages of the index,
\* search_documents_faiss returns exactly one result per passage: no
\* passage twice, no result from a slot the index could not fill.
C17_OneResultPerPassage ==
    (/\ Answered
     /\ search_call.fn = "search_documents_faiss"
     /\ search_call.top_k > Len(rag_system.page_metadata)) =>
        /\ Len(search_results) = Len(rag_system.page_metadata)
        /\ \A p \in 1..Len(rag_system.page_metadata) :
              Cardinality({i \in 1..Len(search_results) :
                              PagePosition(search_results[i]) = p}) = 1

\* C18: a search on an index that was not loaded, and a search whose
\* embedding call or index search failed, ends in a failure the caller
\* can tell from an empty list of results.
C18_FailureIsNotAnEmptyList ==
    (/\ pc = "searched"
     /\ search_call.condition \in
            {"uninitialized", "embedding_failed", "search_failed"}) =>
        IF search_call.fn = "search_documents_faiss"
        THEN search_results = Raised
        ELSE formatted_results = Raised

\* C19: the results of search_documents_faiss are in order of
\* non-increasing score, results of equal score in insertion order of their
\* pages, and the i-th result has rank i.
C19_BestFirstRankedFromOne ==
    (Answered /\ search_call.fn = "search_documents_faiss") =>
        /\ \A i \in 1..Len(search_results) : search_results[i].rank = i
        /\ \A i, j \in 1..Len(search_results) :
              i < j =>
                 /\ search_results[i].score >= search_results[j].score
                 /\ search_results[i].score = search_results[j].score =>
                       PagePosition(search_results[i])
                           <= PagePosition(search_results[j])

\* three results or more, two pages of equal score among them and a page of
\* lower score after them
C19_Witness ==
    /\ Answered
    /\ search_call.fn = "search_documents_faiss"
    /\ Len(search_results) >= 3
    /\ \E i, j \in 1..Len(search_results) :
          /\ i < j
          /\ search_results[i].score = search_results[j].score
          /\ PagePosition(search_results[i]) < PagePosition(search_results[j])
    /\ search_results[1].score > search_results[Len(search_results)].score
    /\ search_results[Len(search_results)].score > LowestScore

\* the excerpt of a content at a limit: the content itself up to the limit,
\* else its first characters followed by three full stops
IsExcerpt(excerpt, content, limit) ==
    IF Len(content) <= limit
    THEN excerpt = content
    ELSE /\ Len(excerpt) = limit + 3
         /\ \A i \in 1..limit : excerpt[i] = content[i]
         /\ \A i \in (limit + 1)..(limit + 3) : excerpt[i] = "."

\* C20: every result carries the full content of its page unchanged, and an
\* excerpt of it: at the limit of 500 characters in the content field of a
\* search result, of 300 characters in the excerpt field of a formatted
\* result.
C20_ExcerptBesideFullContent ==
    Answered =>
        /\ \A i \in 1..Len(search_results) :
              /\ search_results[i].full_content =
                     rag_system.page_metadata[
                         PagePosition(search_results[i])].content
              /\ IsExcerpt(search_results[i].content,
                           search_results[i].full_content, ContentLimit)
        /\ search_call.fn = "get_relevant_documents" =>
              /\ Len(formatted_results) = Len(search_results)
              /\ \A i \in 1..Len(formatted_results) :
                    /\ formatted_results[i].full_content =
                           search_results[i].full_content
                    /\ IsExcerpt(formatted_results[i].excerpt,
                                 formatted_results[i].full_content,
                                 ExcerptLimit)

\* formatted results with contents below, at and above both limits
C20_Witness ==
    /\ Answered
    /\ search_call.fn = "get_relevant_documents"
    /\ \A n \in {2, ExcerptLimit, ExcerptLimit + 1, ContentLimit,
                 ContentLimit + 1} :
          \E i \in 1..Len(formatted_results) :
              Len(formatted_results[i].full_content) = n
    /\ \E i \in 1..Len(formatted_results) :
          Len(formatted_results[i].excerpt) = ExcerptLimit + 3
    /\ \E i \in 1..Len(search_results) :
          Len(search_results[i].content) = ContentLimit + 3

\* C21: the job starts all ten tasks and returns only after every one of
\* them has finished; a task that failed or asked for a rerun does not keep
\* a sibling from finishing, so that a job that waits always returns.
C21_JobReturnsAfterEveryTaskFinished ==
    /\ [](tasks.job # "idle" => Len(tasks.coros) = Len(TabConfigs))
    /\ [](tasks.job = "returned" =>
              \A i \in 1..Len(tasks.coros) : tasks.coros[i].pc = "done")
    /\ [](tasks.job = "gathering" =>
              \A i \in 1..Len(tasks.coros) :
                  tasks.coros[i].pc = "awaiting" => ENABLED TaskResume(i))
    /\ (tasks.job = "gathering") ~> (tasks.job = "returned")

\* a job that has returned, with a task that failed in its extraction and
\* a task that wrote its results after an external call
C21_Witness ==
    /\ tasks.job = "returned"
    /\ \E i, j \in 1..Len(tasks.coros) :
          /\ i < j
          /\ tasks.coros[i].branch = "except"
          /\ tasks.coros[j].branch = "generated"

\* the result a task that is done has written
OwnResult(i) ==
    IF tasks.coros[i].branch = "none found"
    THEN <<NoInsightsFound(TabConfigs[i].topic_name), NoTokens>>
    ELSE generate_insights_with_gpt4o(TabConfigs[i].topic_name,
                                      tasks.coros[i].api)

\* C22: the slot names of the ten tasks are pairwise distinct, a slot is
\* written only by its own task and only once the task's extraction and
\* generation have ended, and it holds the result of that task.
C22_SlotHoldsResultOfItsOwnTask ==
    /\ \A i, j \in 1..Len(TabConfigs) :
          /\ InsightsKey(TabConfigs[i]) # TokenUsageKey(TabConfigs[j])
          /\ i # j =>
                /\ InsightsKey(TabConfigs[i]) # InsightsKey(TabConfigs[j])
                /\ TokenUsageKey(TabConfigs[i]) # TokenUsageKey(TabConfigs[j])
    /\ tasks.job # "idle" =>
          /\ DOMAIN session_state \subseteq
                 UNION {{InsightsKey(TabConfigs[i]),
                         TokenUsageKey(TabConfigs[i])} :
                        i \in 1..Len(TabConfigs)}
          /\ \A i \in 1..Len(TabConfigs) :
                LET wrote == tasks.coros[i].pc = "done"
                             /\ tasks.coros[i].branch # "except"
                IN  /\ InsightsKey(TabConfigs[i]) \in DOMAIN session_state
                        <=> wrote
                    /\ TokenUsageKey(TabConfigs[i]) \in DOMAIN session_state
                        <=> wrote
                    /\ wrote =>
                          /\ session_state[InsightsKey(TabConfigs[i])] =
                                 OwnResult(i)[1]
                          /\ session_state[TokenUsageKey(TabConfigs[i])] =
                                 OwnResult(i)[2]

\* all three tasks shown in the health tab have written, one of them an
\* error message, while another task still waits for its external call
C22_Witness ==
    /\ tasks.job = "gathering"
    /\ \A i \in 1..Len(tasks.coros) :
          TabConfigs[i].index = 4 => tasks.coros[i].branch = "generated"
    /\ \E i \in 1..Len(tasks.coros) :
          tasks.coros[i].branch = "generated" /\ tasks.coros[i].api # "ok"
    /\ \E i \in 1..Len(tasks.coros) : tasks.coros[i].pc = "awaiting"
    /\ \E i \in 1..Len(tasks.coros) : tasks.coros[i].branch = "none found"

\* C23: a failure of a task, in its extraction or in the external
\* generation call, ends as an error message in the insights slot of the
\* task; after the job has returned each of the ten slots holds generated
\* insights, the message that none were found or an error message.
C23_EverySlotFilledAfterTheJob ==
    tasks.job = "returned" =>
        \A i \in 1..Len(TabConfigs) :
            /\ InsightsKey(TabConfigs[i]) \in DOMAIN session_state
            /\ session_state[InsightsKey(TabConfigs[i])][1] \in
                   {"bullet points", "No ", "Error generating "}
            /\ (\/ tasks.coros[i].branch = "except"
                \/ (tasks.coros[i].api # "ok"
                    /\ tasks.coros[i].branch = "generated"))
                  => session_state[InsightsKey(TabConfigs[i])][1] =
                         "Error generating "

\* the failures of the external call alone do end as error messages
C23_GenerationFailureIsReported ==
    tasks.job = "returned" =>
        \A i \in 1..Len(TabConfigs) :
            (tasks.coros[i].api # "ok" /\ tasks.coros[i].branch = "generated")
                => /\ InsightsKey(TabConfigs[i]) \in DOMAIN session_state
                   /\ session_state[InsightsKey(TabConfigs[i])] =
                          ErrorGenerating(TabConfigs[i].topic_name,
                                          tasks.coros[i].api)

\* C24: after a failed load the table is empty and every query on it
\* answers "nothing" without raising: no document matches, the option lists
\* hold All alone, the year and sample-size ranges are the defaults, and
\* the insights extracted are the empty structure.
C24_FailedLoadDegradesToNoMatches ==
    calls.read_excel = "failed" =>
        /\ df = EmptyTable
        /\ get_publication_years(df) = DefaultYears
        /\ get_sample_sizes(df) = DefaultSizes
        /\ pc = "start" =>
              /\ year_range = <<2011, 2025>>
              /\ sample_size_filter = <<50, 10000, 15000>>
        /\ pc \in {"query", "answered"} => matching_docs = <<>>
        /\ pc = "answered" =>
              /\ publication_types = <<All>>
              /\ funding_sources = <<All>>
              /\ study_designs = <<All>>
              /\ DOMAIN insights = {}

\* the queries have run on the empty table
C24_Witness ==
    /\ calls.read_excel = "failed"
    /\ pc = "answered"
    /\ enable_sample_size
    /\ year_range # <<2011, 2025>>

\* the same queries find documents, options and insights after a load
\* that succeeded
C24_LoadedSheetAnswers ==
    /\ calls.read_excel = "ok"
    /\ pc = "answered"
    /\ matching_docs # <<>>
    /\ Len(publication_types) > 1
    /\ DOMAIN insights # {}

\* a stored selection of a categorical facet is well formed: not empty,
\* and the sentinel alone or no sentinel at all
WellFormedSelection(selection) ==
    /\ selection # <<>>
    /\ selection = <<All>> \/ All \notin Range(selection)

\* C25: at the end of every rerun the stored selection of each categorical
\* facet is non-empty and is either All alone or holds no All.
C25_StoredSelectionWellFormed ==
    pc = "idle" =>
        /\ WellFormedSelection(publication_type)
        /\ WellFormedSelection(funding_source)
        /\ WellFormedSelection(study_design)

\* C26: every call of display_insights reads the slot that the task of the
\* topic of the same name writes, whatever health area is selected.
C26_DisplayReadsSlotOfItsTopic ==
    \A i \in 1..Len(TabConfigs) :
        TabConfigs[i].topic_name = calls.markdown.topic_name =>
            calls.markdown.insights_key = InsightsKey(TabConfigs[i])

\* C26: the panels of the health tab read the slot of their own topic.
C26_HealthPanelReadsOwnSlot ==
    calls.markdown.tab_index = 4 => C26_DisplayReadsSlotOfItsTopic

\* C26: a health panel has shown the insights its task generated
C26_HealthPanelShown ==
    /\ calls.markdown.tab_index = 4
    /\ calls.markdown.topic_name = "Respiratory Health"
    /\ calls.markdown.shown = BulletPoints("Respiratory Health")

\* C27: the vector index is loaded once per session: a run that finds the
\* system initialised, or an earlier attempt failed, does not call
\* initialize_rag_system again.
C27_IndexLoadedOncePerSession == calls.initialize_rag_system <= 1

\* C27: once an attempt to initialise has failed, no later run repeats it.
C27_FailedAttemptNotRepeated ==
    [][(/\ Has(session_state, "rag_system")
        /\ ~Get(session_state, "rag_system").is_initialized)
       => calls'.initialize_rag_system = calls.initialize_rag_system]_vars

\* C27: the index has been loaded and a later run has ended
C27_RunAfterLoad ==
    /\ Has(session_state, "rag_system")
    /\ Get(session_state, "rag_system").is_initialized
    /\ calls.script_runs >= 2

\* the number of the question that the message at place p (from 1) of the
\* history answers: the user messages up to p
Questions(history, p) ==
    Cardinality({q \in 1..p : history[q].role = "user"})

C28_SubmitAddsQuestionAndReply ==
    [][Has(session_state, "chat_history") =>
          LET before == Get(session_state, "chat_history")
              after == Get(session_state', "chat_history")
          IN  \/ after = before /\ pc' \notin {"asked", "cleared"}
              \/ after = <<>> /\ pc' = "cleared"
              \/ /\ pc' = "asked"
                 /\ Len(after) = Len(before) + 2
                 /\ SubSeq(after, 1, Len(before)) = before]_vars

\* the calls of transcribe_audio that gave a text for the recording
Transcriptions(audio_bytes) ==
    {i \in 1..Len(calls.transcribe_audio) :
        /\ calls.transcribe_audio[i].audio_bytes = audio_bytes
        /\ calls.transcribe_audio[i].text # None}

\* C29: a recording is transcribed at most once, over every run, Submit
\* and Clear Chat during which the recorder returns the same bytes.
C29_RecordingTranscribedOnce ==
    \A i \in 1..Len(AudioClips) :
        Cardinality(Transcriptions(AudioClips[i])) <= 1

\* C29: the run that follows a Submit or a Clear Chat leaves the question
\* input empty.
C29_QuestionNotRefilled ==
    [][(pc \in {"asked", "cleared"})
       => (Get(session_state', "current_question") = <<"">>)]_vars

\* C29: a new recording with other bytes is handed to transcribe_audio in
\* the run that it starts.
C29_NewRecordingTranscribed ==
    [][(/\ submitted'.audio_bytes # submitted.audio_bytes
        /\ ApiKeyAvailable(session_state'))
       => /\ calls'.transcribe_audio # calls.transcribe_audio
          /\ calls'.transcribe_audio[Len(calls'.transcribe_audio)]
                 .audio_bytes = submitted'.audio_bytes]_vars

\* the documents handed over that have a value for some path of the schema
DocumentsWithOutput ==
    {d \in Range(matching_docs) :
        DOMAIN DocInsights(df, d, categories_to_extract) # {}}

\* C30: the extraction emits one entry per document that has output: as
\* many entries as documents with a non-blank value for some path, each
\* entry holding the values of one document only, also when two documents
\* share a title or a document has none.
C30_OneEntryPerDocumentWithOutput ==
    pc = "extracted" =>
        /\ Cardinality(DOMAIN insights) = Cardinality(DocumentsWithOutput)
        /\ \A key \in DOMAIN insights :
              \E d \in DocumentsWithOutput :
                 /\ key = DocIdentifier(df, d)
                 /\ insights[key] = DocInsights(df, d, categories_to_extract)

\* C30: each entry holds the values of one document only.
C30_EntryHoldsOneDocument ==
    pc = "extracted" =>
        \A key \in DOMAIN insights :
            \E d \in DocumentsWithOutput :
               /\ key = DocIdentifier(df, d)
               /\ insights[key] = DocInsights(df, d, categories_to_extract)

\* C30: two documents with output and different names, one without a title
C30_UntitledDocumentKeepsItsEntry ==
    /\ pc = "extracted"
    /\ Cardinality(DocumentsWithOutput) >= 2
    /\ Cardinality(DOMAIN insights) = Cardinality(DocumentsWithOutput)
    /\ \E d \in DocumentsWithOutput : TitleCell(df, d) = NaN

=============================================================================
